---- MODULE Spec2Model ----
(***************************************************************************)
(* Verification model of the Granville analysis toolkit:                   *)
(*   - backtest/backtest.py       backtest_single_stock_enhanced           *)
(*   - granville_toolkit/         detectors and granville_eight_rules      *)
(*   - core/signal_processor.py   filter_signals, generate_signals         *)
(*   - core/data_processor.py     process_input_data                       *)
(*   - core/main_api.py           analyze_stock                            *)
(*                                                                         *)
(* Arithmetic is exact.  A price is an integer number of ticks, one tick   *)
(* being 1/PriceDen of the currency unit.  Money (cash, proceeds, profit)  *)
(* is an integer number of money units, one money unit being               *)
(* 1/(100*PriceDen) of the currency unit, so that entry_price *            *)
(* (1 + take_profit_pct) is an integer for every whole-percent             *)
(* take_profit_pct.  The ledger stores round(x, 2), modelled as an integer *)
(* number of cents.                                                        *)
(***************************************************************************)
EXTENDS Integers, Sequences, FiniteSets, TLC

\* ------------------------------------------------------------------------
\* Bounds of the model
\* ------------------------------------------------------------------------
\* ticks per currency unit
PriceDen == 1000
\* longest bar series replayed by the backtest
MaxBars == 3

\* closing prices of a bar, in ticks
Closes == {100, 101, 110, 120}
\* High - Close of a bar, in ticks
HighExcess == {0, 10}
\* values of the granville_signal column
GranCodes == {0, 1, 4, 5, 8}
\* values of the cross_signal and breakout_signal columns
SignalCodes == {-1, 0, 1}
\* take_profit_pct, in percent
TakeProfitPcts == {10}
\* initial_capital, in cents
InitialCapitals == {0, 10, 25}

StockId == "2317"

\* frames given to granville_eight_rules: PrefixLen equal rows, then TailLen
\* free rows
PrefixLen == 9
TailLen == 2
\* Close and ma of a row, in currency units; 0 stands for a NaN ma
PrefixPrices == {92, 100, 108}
PrefixMas == {0, 99, 100, 101}
TailPrices == {96, 100, 104}
TailMas == {99, 100, 101}
\* Volume of the free rows; vol_ma is VolMa on every row
Volumes == {7, 8}
VolMa == 10
\* frames whose Close runs linearly from the first to the second price over
\* RampLen rows, with a RampMa-row moving average
RampLen == 40
RampMa == 20
Ramps == {<<90, 150>>, <<150, 90>>}
\* frames given to prepare_signals: up to MaxPrepLen rows whose Close steps
\* from one price to another on one of the last rows
MaxPrepLen == 22
StepBacks == {1, 2}
\* lists given to filter_signals: up to MaxSignals signals
MaxSignals == 3
StockCodes == {"2317", "2330"}
FilterRules == {1, 5}
\* timestamps, in seconds
Timestamps == {0, 240, 300, 480}

VARIABLES
    pc,                   \* position of the backtest in its code
    n,                    \* number of rows of df iterated so far
    row,                  \* the row of df iterated last
    take_profit_pct,      \* parameter, percent
    initial_capital,      \* parameter, money units
    cash,                 \* money units
    shares,
    entry_price,          \* ticks
    transaction_records,  \* the ledger
    summary,              \* the returned dict
    df,                   \* the DataFrame given to the classification
    ind,                  \* granville_eight_rules: the supporting indicators
    signals,              \* granville_eight_rules: the signals Series
    applied,              \* granville_eight_rules: the rules applied so far
    signal_list,          \* filter_signals: the signals argument
    filtered_signals,     \* filter_signals: the returned list
    historical_data,      \* analyze_stock: the caller's DataFrame
    current_data,         \* analyze_stock: the real-time dict, or no dict
    config,               \* analyze_stock: the SignalConfig
    processed_data,       \* what process_input_data returned or raised
    generated_signals,    \* what generate_signals returned or raised
    indicators_df,        \* what calculate_indicators returned or raised
    api_response,         \* the APIResponse
    confidence,           \* what _calculate_signal_confidence returned
    latest_record,        \* notifier: the newest row of the real-time table
    watch_list,           \* notifier: the stock codes of the watch_list table
    processed_keys,       \* notifier: the module's set of handled record keys
    signal_log,           \* notifier: the rows of granville_signal_log
    notifications,        \* notifier: the messages sent to the users
    analysed,             \* notifier: the keys analyze_stock was called for
    skipped               \* notifier: the keys reported as not on the watch list

btVars == <<n, row, take_profit_pct, initial_capital, cash, shares,
            entry_price, transaction_records, summary>>

ruleVars == <<df, ind, signals, applied>>

filterVars == <<signal_list, filtered_signals>>

apiVars == <<historical_data, current_data, config, processed_data,
             generated_signals, indicators_df, api_response, confidence>>

notifierVars == <<latest_record, watch_list, processed_keys, signal_log,
                  notifications, analysed, skipped>>

vars == <<pc, btVars, ruleVars, filterVars, apiVars, notifierVars>>

\* ------------------------------------------------------------------------
\* Numbers
\* ------------------------------------------------------------------------
Abs(x) == IF x < 0 THEN -x ELSE x

\* money units of one cent
CentUnits == PriceDen

\* money units per share of a price given in ticks
PriceUnits(p) == 100 * p

\* round(x, 2) of x money units, in cents: nearest cent, a tie going to the
\* even cent
Round2(x) ==
    LET q == x \div CentUnits
        r == x % CentUnits
    IN  IF 2 * r < CentUnits THEN q
        ELSE IF 2 * r > CentUnits THEN q + 1
        ELSE IF q % 2 = 0 THEN q ELSE q + 1

\* get_rule_descriptions(): the label of each Granville rule
rule_descriptions ==
    [g \in 1..8 |->
        CASE g = 1 -> "rule 1: first rise above the MA - buy"
          [] g = 2 -> "rule 2: pullback above the MA, then rise - buy"
          [] g = 3 -> "rule 3: pullback to MA support - buy"
          [] g = 4 -> "rule 4: far below the MA, reversal - buy"
          [] g = 5 -> "rule 5: first fall below the MA - sell"
          [] g = 6 -> "rule 6: rebound fails below the MA - sell"
          [] g = 7 -> "rule 7: rebound to MA resistance - sell"
          [] g = 8 -> "rule 8: far above the MA, topping - sell"]

\* rule_descriptions.get(g, "")
RuleLabel(g) == IF g \in DOMAIN rule_descriptions THEN rule_descriptions[g] ELSE ""

TakeProfitLabel == "take profit - sell"
DeathCrossLabel == "death cross - sell"
BreakdownLabel == "breakdown below MA - sell"
ForcedLabel == "forced at close - sell"

\* ------------------------------------------------------------------------
\* backtest_single_stock_enhanced
\* ------------------------------------------------------------------------
NoRow == [date |-> 0, Close |-> 0, High |-> 0, granville_signal |-> 0,
          cross_signal |-> 0, breakout_signal |-> 0]

NoSummary == [returned |-> FALSE]

\* no DataFrame
NoFrame == [N |-> 0]

\* no supporting indicators
NoIndicators == [computed |-> FALSE]

\* a DataFrame without columns and rows
NoBars == [columns |-> {}, rows |-> <<>>]

\* realtime_data / current_data is None
NoData == [given |-> FALSE, price |-> 0, volume |-> 0, timestamp |-> 0]

\* a call that has not been made
NotCalled == [called |-> FALSE]

\* no row of the real-time table
NoRecord == [present |-> FALSE]

\* the variables of the notifier while it is not running
NotifierIdle ==
    /\ latest_record = NoRecord
    /\ watch_list = {}
    /\ processed_keys = {}
    /\ signal_log = <<>>
    /\ notifications = <<>>
    /\ analysed = <<>>
    /\ skipped = {}

\* the variables of analyze_stock while it is not running
ApiIdle ==
    /\ historical_data = NoBars
    /\ current_data = NoData
    /\ config = NotCalled
    /\ processed_data = NotCalled
    /\ generated_signals = NotCalled
    /\ indicators_df = NotCalled
    /\ api_response = NotCalled
    /\ confidence = NotCalled

\* the rows a DataFrame with the signal columns can hold at index d
Rows(d) ==
    { [date |-> d, Close |-> c, High |-> c + h, granville_signal |-> g,
       cross_signal |-> x, breakout_signal |-> b] :
        c \in Closes, h \in HighExcess, g \in GranCodes,
        x \in SignalCodes, b \in SignalCodes }

\* the take-profit price per share, money units: entry_price * (1 + take_profit_pct)
TpPrice(entry, tp) == entry * (100 + tp)

\* SellDecision with the Granville sell signal tested before the take-profit
SellDecision_GranvilleFirst(entry, r, tp) ==
    IF r.granville_signal \in {5, 6, 7, 8}
    THEN [sell |-> TRUE, sell_price |-> PriceUnits(r.Close),
          rule_used |-> RuleLabel(r.granville_signal)]
    ELSE IF PriceUnits(r.High) >= TpPrice(entry, tp)
    THEN [sell |-> TRUE, sell_price |-> TpPrice(entry, tp), rule_used |-> TakeProfitLabel]
    ELSE IF r.cross_signal = -1
    THEN [sell |-> TRUE, sell_price |-> PriceUnits(r.Close), rule_used |-> DeathCrossLabel]
    ELSE IF r.breakout_signal = -1
    THEN [sell |-> TRUE, sell_price |-> PriceUnits(r.Close), rule_used |-> BreakdownLabel]
    ELSE [sell |-> FALSE, sell_price |-> 0, rule_used |-> ""]

\* SellDecision with the breakdown tested before the death cross
SellDecision_BreakdownFirst(entry, r, tp) ==
    IF PriceUnits(r.High) >= TpPrice(entry, tp)
    THEN [sell |-> TRUE, sell_price |-> TpPrice(entry, tp), rule_used |-> TakeProfitLabel]
    ELSE IF r.granville_signal \in {5, 6, 7, 8}
    THEN [sell |-> TRUE, sell_price |-> PriceUnits(r.Close),
          rule_used |-> RuleLabel(r.granville_signal)]
    ELSE IF r.breakout_signal = -1
    THEN [sell |-> TRUE, sell_price |-> PriceUnits(r.Close), rule_used |-> BreakdownLabel]
    ELSE IF r.cross_signal = -1
    THEN [sell |-> TRUE, sell_price |-> PriceUnits(r.Close), rule_used |-> DeathCrossLabel]
    ELSE [sell |-> FALSE, sell_price |-> 0, rule_used |-> ""]

\* lines 95-113: which sell trigger fires on a row while shares > 0
SellDecision(entry, r, tp) ==
    IF PriceUnits(r.High) >= TpPrice(entry, tp)
    THEN [sell |-> TRUE, sell_price |-> TpPrice(entry, tp), rule_used |-> TakeProfitLabel]
    ELSE IF r.granville_signal \in {5, 6, 7, 8}
    THEN [sell |-> TRUE, sell_price |-> PriceUnits(r.Close),
          rule_used |-> RuleLabel(r.granville_signal)]
    ELSE IF r.cross_signal = -1
    THEN [sell |-> TRUE, sell_price |-> PriceUnits(r.Close), rule_used |-> DeathCrossLabel]
    ELSE IF r.breakout_signal = -1
    THEN [sell |-> TRUE, sell_price |-> PriceUnits(r.Close), rule_used |-> BreakdownLabel]
    ELSE [sell |-> FALSE, sell_price |-> 0, rule_used |-> ""]

\* lines 116-131 and 161-181: the SELL record of shares sold at sell_price
SellRecord(date, sell_price, sh, entry, cash_after, rule_used) ==
    [date |-> date, action |-> "SELL", stock_id |-> StockId,
     price |-> Round2(sell_price),
     shares |-> sh,
     trade_value |-> Round2(sell_price * sh),
     cash_after |-> Round2(cash_after),
     realized_profit |-> Round2((sell_price - PriceUnits(entry)) * sh),
     total_capital_after |-> Round2(cash_after),
     rule_label |-> rule_used]

\* lines 140-156: the BUY record of sh shares bought at the close
BuyRecord(date, close, sh, cash_after, rule_used) ==
    [date |-> date, action |-> "BUY", stock_id |-> StockId,
     price |-> Round2(PriceUnits(close)),
     shares |-> sh,
     trade_value |-> Round2(PriceUnits(close) * sh),
     cash_after |-> Round2(cash_after),
     realized_profit |-> 0,
     total_capital_after |-> Round2(cash_after + sh * PriceUnits(close)),
     rule_label |-> rule_used]

\* A position: the loop's local variables
Position(c, sh, e, recs) ==
    [cash |-> c, shares |-> sh, entry_price |-> e, transaction_records |-> recs]

\* SellStep that keeps the cash in whole cents
SellStep_RoundedCash(pos, r, tp) ==
    IF pos.shares > 0
    THEN LET d == SellDecision(pos.entry_price, r, tp)
         IN  IF d.sell
             THEN LET cash2 == Round2(pos.cash + d.sell_price * pos.shares) * CentUnits
                  IN  Position(cash2, 0, pos.entry_price,
                               Append(pos.transaction_records,
                                      SellRecord(r.date, d.sell_price, pos.shares,
                                                 pos.entry_price, cash2, d.rule_used)))
             ELSE pos
    ELSE pos

\* SellStep that sells without a record in the ledger
SellStep_Unrecorded(pos, r, tp) ==
    IF pos.shares > 0
    THEN LET d == SellDecision(pos.entry_price, r, tp)
         IN  IF d.sell
             THEN Position(pos.cash + d.sell_price * pos.shares, 0, pos.entry_price,
                           pos.transaction_records)
             ELSE pos
    ELSE pos

\* lines 93-132: the sell step of one iteration
SellStep(pos, r, tp) ==
    IF pos.shares > 0
    THEN LET d == SellDecision(pos.entry_price, r, tp)
         IN  IF d.sell
             THEN LET cash2 == pos.cash + d.sell_price * pos.shares
                  IN  Position(cash2, 0, pos.entry_price,
                               Append(pos.transaction_records,
                                      SellRecord(r.date, d.sell_price, pos.shares,
                                                 pos.entry_price, cash2, d.rule_used)))
             ELSE pos
    ELSE pos

\* BuyTrigger that wants the golden cross and the breakout together
BuyTrigger_BothRequired(r) ==
    /\ r.granville_signal \in {1, 2, 3, 4}
    /\ (r.cross_signal = 1 /\ r.breakout_signal = 1)

\* line 136: the buy trigger
BuyTrigger(r) ==
    /\ r.granville_signal \in {1, 2, 3, 4}
    /\ (r.cross_signal = 1 \/ r.breakout_signal = 1)

\* BuyStep with the share count rounded up instead of down
BuyStep_RoundUp(pos, r) ==
    IF pos.shares = 0 /\ BuyTrigger(r)
    THEN LET sh == (pos.cash \div PriceUnits(r.Close)) + 1
         IN  IF sh > 0
             THEN LET cash2 == pos.cash - PriceUnits(r.Close) * sh
                  IN  Position(cash2, sh, r.Close,
                               Append(pos.transaction_records,
                                      BuyRecord(r.date, r.Close, sh, cash2,
                                                RuleLabel(r.granville_signal))))
             ELSE pos
    ELSE pos

\* BuyStep that buys nothing on a row whose sell step has sold
BuyStep_NotAfterSale(pos, r) ==
    IF /\ pos.shares = 0
       /\ BuyTrigger(r)
       /\ ~(/\ Len(pos.transaction_records) > 0
            /\ pos.transaction_records[Len(pos.transaction_records)].action = "SELL"
            /\ pos.transaction_records[Len(pos.transaction_records)].date = r.date)
    THEN LET sh == pos.cash \div PriceUnits(r.Close)
         IN  IF sh > 0
             THEN LET cash2 == pos.cash - PriceUnits(r.Close) * sh
                  IN  Position(cash2, sh, r.Close,
                               Append(pos.transaction_records,
                                      BuyRecord(r.date, r.Close, sh, cash2,
                                                RuleLabel(r.granville_signal))))
             ELSE pos
    ELSE pos

\* lines 134-156: the buy step of one iteration.  shares is assigned
\* math.floor(cash / buy_price) before it is tested, which leaves it 0 when
\* nothing can be bought.
BuyStep(pos, r) ==
    IF pos.shares = 0 /\ BuyTrigger(r)
    THEN LET sh == pos.cash \div PriceUnits(r.Close)
         IN  IF sh > 0
             THEN LET cash2 == pos.cash - PriceUnits(r.Close) * sh
                  IN  Position(cash2, sh, r.Close,
                               Append(pos.transaction_records,
                                      BuyRecord(r.date, r.Close, sh, cash2,
                                                RuleLabel(r.granville_signal))))
             ELSE pos
    ELSE pos

\* lines 84-156: one iteration of the loop over the rows
BarStep(pos, r, tp) == BuyStep(SellStep(pos, r, tp), r)

\* ForcedStep that leaves the position open
ForcedStep_Skipped(pos, last) == pos

\* ForcedStep that labels the sale with the last row's rule description
ForcedStep_RuleLabel(pos, last) ==
    IF pos.shares > 0
    THEN LET sell_price == PriceUnits(last.Close)
             cash2 == pos.cash + sell_price * pos.shares
             rule_used == IF last.granville_signal \in 1..8
                          THEN RuleLabel(last.granville_signal)
                          ELSE ForcedLabel
         IN  Position(cash2, 0, pos.entry_price,
                      Append(pos.transaction_records,
                             SellRecord(last.date, sell_price, pos.shares,
                                        pos.entry_price, cash2, rule_used)))
    ELSE pos

\* ForcedStep that sells at the last row's High
ForcedStep_AtHigh(pos, last) ==
    IF pos.shares > 0
    THEN LET sell_price == PriceUnits(last.High)
             cash2 == pos.cash + sell_price * pos.shares
             rule_used == IF last.granville_signal \in {5, 6, 7, 8}
                          THEN RuleLabel(last.granville_signal)
                          ELSE ForcedLabel
         IN  Position(cash2, 0, pos.entry_price,
                      Append(pos.transaction_records,
                             SellRecord(last.date, sell_price, pos.shares,
                                        pos.entry_price, cash2, rule_used)))
    ELSE pos

\* lines 158-182: a position still held after the loop is sold at last_close
ForcedStep(pos, last) ==
    IF pos.shares > 0
    THEN LET sell_price == PriceUnits(last.Close)
             cash2 == pos.cash + sell_price * pos.shares
             rule_used == IF last.granville_signal \in {5, 6, 7, 8}
                          THEN RuleLabel(last.granville_signal)
                          ELSE ForcedLabel
         IN  Position(cash2, 0, pos.entry_price,
                      Append(pos.transaction_records,
                             SellRecord(last.date, sell_price, pos.shares,
                                        pos.entry_price, cash2, rule_used)))
    ELSE pos

\* lines 197-200: the SELL rows of the ledger
SellRows(recs) == SelectSeq(recs, LAMBDA t : t.action = "SELL")

\* WinRows that counts a SELL row without a loss as a win
WinRows_NoLoss(recs) == SelectSeq(SellRows(recs), LAMBDA t : t.realized_profit >= 0)

\* line 199: the SELL rows whose stored profit is positive
WinRows(recs) == SelectSeq(SellRows(recs), LAMBDA t : t.realized_profit > 0)

\* line 200: win_rate as the fraction num/den; 0.0 is 0/1
WinRate(recs) ==
    IF Len(SellRows(recs)) > 0
    THEN [num |-> Len(WinRows(recs)), den |-> Len(SellRows(recs))]
    ELSE [num |-> 0, den |-> 1]

\* lines 206-210: a SELL row has a return_ratio unless it is 0/0 (dropna)
HasRatio(t) == ~(t.realized_profit = 0 /\ t.trade_value - t.realized_profit = 0)

\* two return ratios p/(v - p) are equal
SameRatio(s, t) ==
    s.realized_profit * (t.trade_value - t.realized_profit)
        = t.realized_profit * (s.trade_value - s.realized_profit)

\* lines 211-214: whether sharpe_ratio is the literal 0.0 (fewer than two
\* ratios, or a standard deviation of 0) or mean/std*sqrt(n)
SharpeKind(recs) ==
    LET rets == SelectSeq(SellRows(recs), HasRatio)
    IN  IF Len(rets) > 1
           /\ \E i, j \in 1..Len(rets) : ~SameRatio(rets[i], rets[j])
        THEN "mean/std*sqrt(n)"
        ELSE "0.0"

\* lines 184-242: the returned dict.  total_return is the fraction
\* (final_value - initial_capital) / initial_capital.
Summary(pos, init, last) ==
    [returned |-> TRUE,
     initial_capital |-> init,
     final_value |-> pos.cash,
     total_return |-> [num |-> pos.cash - init, den |-> init],
     win_rate |-> WinRate(pos.transaction_records),
     total_trades |-> Len(SellRows(pos.transaction_records)),
     sharpe_ratio |-> SharpeKind(pos.transaction_records),
     final_position |-> [stock_id |-> StockId, shares_held |-> pos.shares,
                         last_close |-> last.Close,
                         market_value |-> pos.shares * PriceUnits(last.Close)],
     trades |-> pos.transaction_records]

Here == Position(cash, shares, entry_price, transaction_records)

\* lines 76-82: the state before the loop
Init ==
    /\ pc = "loop"
    /\ n = 0
    /\ row = NoRow
    /\ take_profit_pct \in TakeProfitPcts
    /\ initial_capital \in {c * CentUnits : c \in InitialCapitals}
    /\ cash = initial_capital
    /\ shares = 0
    /\ entry_price = 0
    /\ transaction_records = <<>>
    /\ summary = NoSummary
    /\ df = NoFrame
    /\ ind = NoIndicators
    /\ signals = <<>>
    /\ applied = 0
    /\ signal_list = <<>>
    /\ filtered_signals = <<>>
    /\ ApiIdle
    /\ NotifierIdle

\* line 80: df.iloc[-1] of a frame without rows raises
EmptyFrame ==
    /\ pc = "loop"
    /\ n = 0
    /\ pc' = "raised"
    /\ UNCHANGED <<n, row, take_profit_pct, initial_capital, cash, shares,
                   entry_price, transaction_records, summary,
                   ruleVars, filterVars, apiVars,
                   notifierVars>>

\* lines 84-91: the loop takes the next row of the index-sorted frame
Iterate ==
    /\ pc = "loop"
    /\ n < MaxBars
    /\ \E r \in Rows(n + 1) : row' = r
    /\ n' = n + 1
    /\ pc' = "sell"
    /\ UNCHANGED <<take_profit_pct, initial_capital, cash, shares, entry_price,
                   transaction_records, summary,
                   ruleVars, filterVars, apiVars,
                   notifierVars>>

\* lines 93-132: the sell step on the current row
SellPhase ==
    /\ pc = "sell"
    /\ LET pos == SellStep(Here, row, take_profit_pct)
       IN  /\ cash' = pos.cash
           /\ shares' = pos.shares
           /\ entry_price' = pos.entry_price
           /\ transaction_records' = pos.transaction_records
    /\ pc' = "buy"
    /\ UNCHANGED <<n, row, take_profit_pct, initial_capital, summary,
                   ruleVars, filterVars, apiVars,
                   notifierVars>>

\* lines 134-156: the buy step on the current row
BuyPhase ==
    /\ pc = "buy"
    /\ LET pos == BuyStep(Here, row)
       IN  /\ cash' = pos.cash
           /\ shares' = pos.shares
           /\ entry_price' = pos.entry_price
           /\ transaction_records' = pos.transaction_records
    /\ pc' = "loop"
    /\ UNCHANGED <<n, row, take_profit_pct, initial_capital, summary,
                   ruleVars, filterVars, apiVars,
                   notifierVars>>

\* lines 158-182: the loop has ended on the last row; last_close is its Close
ForcedLiquidation ==
    /\ pc = "loop"
    /\ n >= 1
    /\ LET pos == ForcedStep(Here, row)
       IN  /\ cash' = pos.cash
           /\ shares' = pos.shares
           /\ entry_price' = pos.entry_price
           /\ transaction_records' = pos.transaction_records
    /\ pc' = "stats"
    /\ UNCHANGED <<n, row, take_profit_pct, initial_capital, summary,
                   ruleVars, filterVars, apiVars,
                   notifierVars>>

\* lines 184-242: the statistics and the returned dict; line 195 divides by
\* initial_capital
Performance ==
    /\ pc = "stats"
    /\ IF initial_capital = 0
       THEN /\ pc' = "raised"
            /\ UNCHANGED summary
       ELSE /\ pc' = "done"
            /\ summary' = Summary(Here, initial_capital, row)
    /\ UNCHANGED <<n, row, take_profit_pct, initial_capital, cash, shares,
                   entry_price, transaction_records,
                   ruleVars, filterVars, apiVars,
                   notifierVars>>

Next ==
    \/ EmptyFrame
    \/ Iterate
    \/ SellPhase
    \/ BuyPhase
    \/ ForcedLiquidation
    \/ Performance

Spec == Init /\ [][Next]_vars

\* ------------------------------------------------------------------------
\* Columns of a DataFrame
\* ------------------------------------------------------------------------
\* A number of a column is the fraction num/den with den > 0, or NaN (den = 0).
\* A column is a function on 1..N, the rows in index order.
NaN == [num |-> 0, den |-> 0]

Frac(a, b) == [num |-> a, den |-> b]

IsNaN(x) == x.den = 0

\* comparisons of pandas: a comparison with NaN is False
Gt(x, y) == ~IsNaN(x) /\ ~IsNaN(y) /\ x.num * y.den > y.num * x.den
Lt(x, y) == ~IsNaN(x) /\ ~IsNaN(y) /\ x.num * y.den < y.num * x.den
Ge(x, y) == ~IsNaN(x) /\ ~IsNaN(y) /\ x.num * y.den >= y.num * x.den
Le(x, y) == ~IsNaN(x) /\ ~IsNaN(y) /\ x.num * y.den <= y.num * x.den
Eq(x, y) == ~IsNaN(x) /\ ~IsNaN(y) /\ x.num * y.den = y.num * x.den

RECURSIVE Gcd(_, _)
Gcd(a, b) == IF b = 0 THEN a ELSE Gcd(b, a % b)

\* the fraction a/b (b > 0) in lowest terms
Lowest(a, b) == LET g == Gcd(Abs(a), b) IN Frac(a \div g, b \div g)

\* the least common denominator of two fractions
CommonDen(x, y) == (x.den \div Gcd(x.den, y.den)) * y.den

\* arithmetic of pandas: NaN propagates
Add(x, y) ==
    IF IsNaN(x) \/ IsNaN(y) THEN NaN
    ELSE LET c == CommonDen(x, y)
         IN  Lowest(x.num * (c \div x.den) + y.num * (c \div y.den), c)

Sub(x, y) ==
    IF IsNaN(x) \/ IsNaN(y) THEN NaN
    ELSE LET c == CommonDen(x, y)
         IN  Lowest(x.num * (c \div x.den) - y.num * (c \div y.den), c)

\* x / y for y > 0 (the moving averages of positive prices and volumes)
Div(x, y) ==
    IF IsNaN(x) \/ IsNaN(y) \/ y.num <= 0 THEN NaN
    ELSE LET g == Gcd(x.den, y.den)
             h == Gcd(Abs(x.num), y.num)
         IN  IF x.num = 0 THEN Frac(0, 1)
             ELSE Frac((x.num \div h) * (y.den \div g), (x.den \div g) * (y.num \div h))

Times(x, k) == IF IsNaN(x) THEN NaN ELSE Lowest(x.num * k, x.den)

Over(x, k) == IF IsNaN(x) THEN NaN ELSE Lowest(x.num, x.den * k)

AbsF(x) == IF IsNaN(x) THEN NaN ELSE Frac(Abs(x.num), x.den)

\* Series.shift(k): the value k rows earlier, NaN before the first row
Shifted(col, t, k) == IF (t - k) \in DOMAIN col THEN col[t - k] ELSE NaN

\* Series.shift(k).fillna(False) of a boolean column
ShiftedFlag(flag, t, k) == IF (t - k) \in DOMAIN flag THEN flag[t - k] ELSE FALSE

RECURSIVE SumOf(_, _, _)
SumOf(col, lo, hi) == IF lo > hi THEN Frac(0, 1) ELSE Add(col[lo], SumOf(col, lo + 1, hi))

\* Series.rolling(w).mean(): NaN until w rows are available
RollingMean(col, w) ==
    [t \in DOMAIN col |-> IF t < w THEN NaN ELSE Over(SumOf(col, t - w + 1, t), w)]

\* Series.rolling(w).max() and .min(): NaN until w rows are available
RollingMax(col, w) ==
    [t \in DOMAIN col |->
        IF t < w \/ \E i \in (t - w + 1)..t : IsNaN(col[i]) THEN NaN
        ELSE CHOOSE x \in {col[i] : i \in (t - w + 1)..t} :
                \A i \in (t - w + 1)..t : Ge(x, col[i])]

RollingMin(col, w) ==
    [t \in DOMAIN col |->
        IF t < w \/ \E i \in (t - w + 1)..t : IsNaN(col[i]) THEN NaN
        ELSE CHOOSE x \in {col[i] : i \in (t - w + 1)..t} :
                \A i \in (t - w + 1)..t : Le(x, col[i])]

\* ------------------------------------------------------------------------
\* granville_toolkit/utils.py: the detectors
\* ------------------------------------------------------------------------
\* the slope that separates a flat moving average from a trend
TrendEpsilon == Frac(1, 1000)

\* calculate_ma_trend with the two directions swapped
calculate_ma_trend_Swapped(ma, window) ==
    [t \in DOMAIN ma |->
        LET ma_slope == Sub(ma[t], Shifted(ma, t, window))
        IN  IF Lt(ma_slope, Frac(-1 * TrendEpsilon.num, TrendEpsilon.den)) THEN 1
            ELSE IF Gt(ma_slope, TrendEpsilon) THEN -1
            ELSE 0]

\* calculate_ma_trend: 1 (up), -1 (down), 0 (flat) from ma.diff(window)
calculate_ma_trend(ma, window) ==
    [t \in DOMAIN ma |->
        LET ma_slope == Sub(ma[t], Shifted(ma, t, window))
        IN  IF Lt(ma_slope, Frac(-1 * TrendEpsilon.num, TrendEpsilon.den)) THEN -1
            ELSE IF Gt(ma_slope, TrendEpsilon) THEN 1
            ELSE 0]

\* ((price - ma) / ma) * 100
DeviationPct(price, ma, t) == Times(Div(Sub(price[t], ma[t]), ma[t]), 100)

\* is_price_diverged: far_above_ma
far_above(price, ma, threshold) ==
    [t \in DOMAIN price |-> Gt(DeviationPct(price, ma, t), threshold)]

\* is_price_diverged: far_below_ma
far_below(price, ma, threshold) ==
    [t \in DOMAIN price |->
        Lt(DeviationPct(price, ma, t), Frac(-1 * threshold.num, threshold.den))]

\* detect_new_highs_lows: new_highs
detect_new_highs(price, window) ==
    [t \in DOMAIN price |->
        /\ Eq(price[t], RollingMax(price, window)[t])
        /\ Eq(price[t], RollingMax(price, 2)[t])]

\* detect_new_highs_lows: new_lows
detect_new_lows(price, window) ==
    [t \in DOMAIN price |->
        /\ Eq(price[t], RollingMin(price, window)[t])
        /\ Eq(price[t], RollingMin(price, 2)[t])]

\* the volume/vol_ma ratio below which volume counts as contracting
ContractionThreshold == Frac(8, 10)

\* detect_volume_contraction
detect_volume_contraction(volume, vol_ma) ==
    [t \in DOMAIN volume |-> Lt(Div(volume[t], vol_ma[t]), ContractionThreshold)]

\* detect_price_crossover: cross_above
cross_above_of(price, ma) ==
    [t \in DOMAIN price |->
        /\ Gt(price[t], ma[t])
        /\ Le(Shifted(price, t, 1), Shifted(ma, t, 1))]

\* detect_price_crossover: cross_below
cross_below_of(price, ma) ==
    [t \in DOMAIN price |->
        /\ Lt(price[t], ma[t])
        /\ Ge(Shifted(price, t, 1), Shifted(ma, t, 1))]

\* detect_support_resistance_test: support_test
support_test_of(price, ma, tolerance) ==
    [t \in DOMAIN price |->
        /\ Le(AbsF(DeviationPct(price, ma, t)), tolerance)
        /\ Le(price[t], ma[t])]

\* detect_support_resistance_test: resistance_test
resistance_test_of(price, ma, tolerance) ==
    [t \in DOMAIN price |->
        /\ Le(AbsF(DeviationPct(price, ma, t)), tolerance)
        /\ Ge(price[t], ma[t])]

\* ------------------------------------------------------------------------
\* granville_toolkit/granville_rules.py: granville_eight_rules
\* ------------------------------------------------------------------------
\* the defaults of divergence_threshold, trend_window and support_tolerance,
\* and the window of detect_new_highs_lows
DivergenceThreshold == Frac(3, 1)
TrendWindow == 5
SupportTolerance == Frac(1, 2)
HighLowWindow == 10

\* lines 78-84: the supporting indicators of a frame with the columns Close,
\* ma, Volume and vol_ma
Detectors(d) ==
    [computed |-> TRUE,
     ma_trend |-> calculate_ma_trend(d.ma, TrendWindow),
     far_above_ma |-> far_above(d.Close, d.ma, DivergenceThreshold),
     far_below_ma |-> far_below(d.Close, d.ma, DivergenceThreshold),
     new_highs |-> detect_new_highs(d.Close, HighLowWindow),
     new_lows |-> detect_new_lows(d.Close, HighLowWindow),
     volume_contraction |-> detect_volume_contraction(d.Volume, d.vol_ma),
     cross_above |-> cross_above_of(d.Close, d.ma),
     cross_below |-> cross_below_of(d.Close, d.ma),
     support_test |-> support_test_of(d.Close, d.ma, SupportTolerance),
     resistance_test |-> resistance_test_of(d.Close, d.ma, SupportTolerance)]

\* the flag was set on one of the three rows before t
WithinLastThree(flag, t) ==
    ShiftedFlag(flag, t, 3) \/ ShiftedFlag(flag, t, 2) \/ ShiftedFlag(flag, t, 1)

\* rule_1_condition .. rule_8_condition on row t
rule_1_condition(d, i, t) == i.cross_above[t] /\ i.ma_trend[t] >= 0

rule_2_condition(d, i, t) ==
    Gt(d.Close[t], d.ma[t]) /\ i.new_highs[t] /\ i.ma_trend[t] > 0

rule_3_condition(d, i, t) ==
    WithinLastThree(i.far_above_ma, t) /\ i.support_test[t] /\ i.ma_trend[t] > 0

rule_4_condition(d, i, t) ==
    /\ i.far_below_ma[t]
    /\ i.volume_contraction[t]
    /\ ~i.new_lows[t]
    /\ 2 * i.ma_trend[t] >= -1

rule_5_condition(d, i, t) == i.cross_below[t] /\ i.ma_trend[t] <= 0

rule_6_condition(d, i, t) ==
    Lt(d.Close[t], d.ma[t]) /\ i.new_lows[t] /\ i.ma_trend[t] < 0

rule_7_condition(d, i, t) ==
    WithinLastThree(i.far_below_ma, t) /\ i.resistance_test[t] /\ i.ma_trend[t] < 0

rule_8_condition(d, i, t) ==
    /\ i.far_above_ma[t]
    /\ i.volume_contraction[t]
    /\ ~i.new_highs[t]
    /\ 2 * i.ma_trend[t] <= 1

RuleCondition(k, d, i, t) ==
    CASE k = 1 -> rule_1_condition(d, i, t)
      [] k = 2 -> rule_2_condition(d, i, t)
      [] k = 3 -> rule_3_condition(d, i, t)
      [] k = 4 -> rule_4_condition(d, i, t)
      [] k = 5 -> rule_5_condition(d, i, t)
      [] k = 6 -> rule_6_condition(d, i, t)
      [] k = 7 -> rule_7_condition(d, i, t)
      [] k = 8 -> rule_8_condition(d, i, t)

\* apply_rule that adds the rule number to the code of the row
apply_rule_Additive(k, sig, d, i) ==
    [t \in DOMAIN sig |-> IF RuleCondition(k, d, i, t) THEN sig[t] + k ELSE sig[t]]

\* apply_rule without the signals == 0 guard
apply_rule_Unguarded(k, sig, d, i) ==
    [t \in DOMAIN sig |-> IF RuleCondition(k, d, i, t) THEN k ELSE sig[t]]

\* _apply_rule_k: signals.loc[rule_k_condition & (signals == 0)] = k
apply_rule(k, sig, d, i) ==
    [t \in DOMAIN sig |-> IF RuleCondition(k, d, i, t) /\ sig[t] = 0 THEN k ELSE sig[t]]

\* line 87: pd.Series(0, index=df.index)
ZeroSignals(d) == [t \in 1..d.N |-> 0]

RECURSIVE ApplyRules(_, _, _, _, _)
\* lines 90-97: rules from..to applied in turn
ApplyRules(sig, d, i, from, to) ==
    IF from > to THEN sig
    ELSE ApplyRules(apply_rule(from, sig, d, i), d, i, from + 1, to)

\* granville_eight_rules: the column it adds to the frame
granville_eight_rules(d) == ApplyRules(ZeroSignals(d), d, Detectors(d), 1, 8)

\* backtest.py, prepare_signals: the windows of MA5, MA20 and vol_ma5
ShortWindow == 5
LongWindow == 20
VolWindow == 5

\* the frames of the model -------------------------------------------------
MaOf(m) == IF m = 0 THEN NaN ELSE Frac(m, 1)

TailBars == [p : TailPrices, m : TailMas]

\* PrefixLen rows of Close p0, ma m0 and Volume VolMa, then the rows of tail
\* with Volume v
TailFrame(p0, m0, tail, v) ==
    [N |-> PrefixLen + TailLen,
     Close |-> [t \in 1..(PrefixLen + TailLen) |->
                  IF t <= PrefixLen THEN Frac(p0, 1) ELSE Frac(tail[t - PrefixLen].p, 1)],
     ma |-> [t \in 1..(PrefixLen + TailLen) |->
                  IF t <= PrefixLen THEN MaOf(m0) ELSE MaOf(tail[t - PrefixLen].m)],
     Volume |-> [t \in 1..(PrefixLen + TailLen) |->
                  IF t <= PrefixLen THEN Frac(VolMa, 1) ELSE Frac(v, 1)],
     vol_ma |-> [t \in 1..(PrefixLen + TailLen) |-> Frac(VolMa, 1)]]

TailFrames ==
    { TailFrame(p0, m0, tail, v) :
        p0 \in PrefixPrices, m0 \in PrefixMas, tail \in [1..TailLen -> TailBars],
        v \in Volumes }

\* Close runs linearly from a to b over RampLen rows
RampClose(a, b) ==
    [t \in 1..RampLen |-> Frac(a * (RampLen - 1) + (b - a) * (t - 1), RampLen - 1)]

\* Volume is v on the odd rows and VolMa on the even rows
RampVolume(v) == [t \in 1..RampLen |-> Frac(IF t % 2 = 1 THEN v ELSE VolMa, 1)]

\* a ramp with its moving averages, as moving_average and volume_average
\* (rolling means) compute them
RampFrame(a, b, v) ==
    [N |-> RampLen,
     Close |-> RampClose(a, b),
     ma |-> RollingMean(RampClose(a, b), RampMa),
     Volume |-> RampVolume(v),
     vol_ma |-> RollingMean(RampVolume(v), VolWindow)]

RampFrames == { RampFrame(r[1], r[2], v) : r \in Ramps, v \in Volumes }

\* granville_eight_rules as a process ---------------------------------------
RulesInit ==
    /\ pc = "detect"
    /\ df \in TailFrames \cup RampFrames
    /\ ind = NoIndicators
    /\ signals = <<>>
    /\ applied = 0
    /\ n = 0
    /\ row = NoRow
    /\ take_profit_pct = 0
    /\ initial_capital = 0
    /\ cash = 0
    /\ shares = 0
    /\ entry_price = 0
    /\ transaction_records = <<>>
    /\ summary = NoSummary
    /\ signal_list = <<>>
    /\ filtered_signals = <<>>
    /\ ApiIdle
    /\ NotifierIdle

\* lines 59-87: the supporting indicators and the zero signals
Detect ==
    /\ pc = "detect"
    /\ ind' = Detectors(df)
    /\ signals' = ZeroSignals(df)
    /\ pc' = "apply"
    /\ UNCHANGED <<df, applied, btVars, filterVars, apiVars,
                   notifierVars>>

\* lines 90-97: the next of the eight rules is applied
ApplyRule ==
    /\ pc = "apply"
    /\ applied < 8
    /\ signals' = apply_rule(applied + 1, signals, df, ind)
    /\ applied' = applied + 1
    /\ UNCHANGED <<pc, df, ind, btVars, filterVars, apiVars,
                   notifierVars>>

\* lines 99-101: the signals become the out_col column of the result
Classified ==
    /\ pc = "apply"
    /\ applied = 8
    /\ df' = [N |-> df.N, Close |-> df.Close, ma |-> df.ma, Volume |-> df.Volume,
              vol_ma |-> df.vol_ma, granville_signal |-> signals]
    /\ pc' = "classified"
    /\ UNCHANGED <<ind, signals, applied, btVars, filterVars, apiVars,
                   notifierVars>>

RulesNext ==
    \/ Detect
    \/ ApplyRule
    \/ Classified

SpecRules == RulesInit /\ [][RulesNext]_vars

\* ------------------------------------------------------------------------
\* granville_toolkit/indicators.py: crossover_signal and breakout_signal
\* ------------------------------------------------------------------------
\* crossover_signal with "at or above" for today's comparison
crossover_signal_AtOrAbove(short_ma, long_ma) ==
    [t \in DOMAIN short_ma |->
        LET golden_cross == /\ Ge(short_ma[t], long_ma[t])
                            /\ Le(Shifted(short_ma, t, 1), Shifted(long_ma, t, 1))
            death_cross == /\ Lt(short_ma[t], long_ma[t])
                           /\ Ge(Shifted(short_ma, t, 1), Shifted(long_ma, t, 1))
        IN  IF death_cross THEN -1 ELSE IF golden_cross THEN 1 ELSE 0]

\* crossover_signal: 1 golden cross, -1 death cross, 0 none.  The column is
\* set to 1 first and to -1 afterwards.
crossover_signal(short_ma, long_ma) ==
    [t \in DOMAIN short_ma |->
        LET golden_cross == /\ Gt(short_ma[t], long_ma[t])
                            /\ Le(Shifted(short_ma, t, 1), Shifted(long_ma, t, 1))
            death_cross == /\ Lt(short_ma[t], long_ma[t])
                           /\ Ge(Shifted(short_ma, t, 1), Shifted(long_ma, t, 1))
        IN  IF death_cross THEN -1 ELSE IF golden_cross THEN 1 ELSE 0]

\* breakout_signal: 1 price breaks above the MA, -1 below, 0 none
breakout_signal(price, ma) ==
    [t \in DOMAIN price |->
        LET breakout_above == /\ Gt(price[t], ma[t])
                              /\ Le(Shifted(price, t, 1), Shifted(ma, t, 1))
            breakout_below == /\ Lt(price[t], ma[t])
                              /\ Ge(Shifted(price, t, 1), Shifted(ma, t, 1))
        IN  IF breakout_below THEN -1 ELSE IF breakout_above THEN 1 ELSE 0]

\* ------------------------------------------------------------------------
\* backtest/backtest.py: prepare_signals, then the backtest of its result
\* ------------------------------------------------------------------------
\* prepare_signals: the frame with the moving averages and the three signal
\* columns
prepare_signals(d) ==
    LET MA5 == RollingMean(d.Close, ShortWindow)
        MA20 == RollingMean(d.Close, LongWindow)
        vol_ma5 == RollingMean(d.Volume, VolWindow)
        g == [N |-> d.N, Close |-> d.Close, ma |-> MA20, Volume |-> d.Volume,
              vol_ma |-> vol_ma5]
    IN  [N |-> d.N, Close |-> d.Close, High |-> d.High, Volume |-> d.Volume,
         MA5 |-> MA5, MA20 |-> MA20, vol_ma5 |-> vol_ma5,
         granville_signal |-> granville_eight_rules(g),
         cross_signal |-> crossover_signal(MA5, MA20),
         breakout_signal |-> breakout_signal(d.Close, MA20)]

\* a price of a column in ticks
Ticks(x) == (x.num * PriceDen) \div x.den

\* lines 84-90: row t of a prepared frame
RowOf(d, t) ==
    [date |-> t, Close |-> Ticks(d.Close[t]), High |-> Ticks(d.High[t]),
     granville_signal |-> d.granville_signal[t],
     cross_signal |-> d.cross_signal[t],
     breakout_signal |-> d.breakout_signal[t]]

RECURSIVE Replay(_, _, _, _)
\* lines 84-156: the loop over rows t..N of the frame
Replay(pos, d, t, tp) ==
    IF t > d.N THEN pos
    ELSE Replay(BarStep(pos, RowOf(d, t), tp), d, t + 1, tp)

\* lines 76-182: the position after the loop and the forced liquidation
Backtested(d, init, tp) ==
    ForcedStep(Replay(Position(init, 0, 0, <<>>), d, 1, tp), RowOf(d, d.N))

\* the frames of the model: Close is c1, and c2 on the last back rows
StepFrame(len, c1, c2, back, h, v) ==
    [N |-> len,
     Close |-> [t \in 1..len |-> Frac(IF t <= len - back THEN c1 ELSE c2, PriceDen)],
     High |-> [t \in 1..len |-> Frac((IF t <= len - back THEN c1 ELSE c2) + h, PriceDen)],
     Volume |-> [t \in 1..len |-> Frac(IF t % 2 = 1 THEN v ELSE VolMa, 1)]]

StepFrames ==
    { StepFrame(len, c1, c2, back, h, v) :
        len \in LongWindow..MaxPrepLen, c1 \in Closes, c2 \in Closes,
        back \in StepBacks, h \in HighExcess, v \in Volumes }

PrepareInit ==
    /\ pc = "prepare"
    /\ df \in StepFrames
    /\ take_profit_pct \in TakeProfitPcts
    /\ initial_capital \in {c * CentUnits : c \in InitialCapitals}
    /\ cash = initial_capital
    /\ shares = 0
    /\ entry_price = 0
    /\ transaction_records = <<>>
    /\ summary = NoSummary
    /\ n = 0
    /\ row = NoRow
    /\ ind = NoIndicators
    /\ signals = <<>>
    /\ applied = 0
    /\ signal_list = <<>>
    /\ filtered_signals = <<>>
    /\ ApiIdle
    /\ NotifierIdle

\* prepare_signals
PrepareSignals ==
    /\ pc = "prepare"
    /\ df' = prepare_signals(df)
    /\ pc' = "backtest"
    /\ UNCHANGED <<ind, signals, applied, btVars, filterVars, apiVars,
                   notifierVars>>

\* backtest_single_stock_enhanced on the prepared frame
RunBacktest ==
    /\ pc = "backtest"
    /\ LET pos == Backtested(df, initial_capital, take_profit_pct)
       IN  /\ cash' = pos.cash
           /\ shares' = pos.shares
           /\ entry_price' = pos.entry_price
           /\ transaction_records' = pos.transaction_records
           /\ n' = df.N
           /\ row' = RowOf(df, df.N)
           /\ IF initial_capital = 0
              THEN /\ pc' = "raised"
                   /\ UNCHANGED summary
              ELSE /\ pc' = "done"
                   /\ summary' = Summary(pos, initial_capital, RowOf(df, df.N))
    /\ UNCHANGED <<take_profit_pct, initial_capital, ruleVars, filterVars, apiVars,
                   notifierVars>>

PrepareNext ==
    \/ PrepareSignals
    \/ RunBacktest

SpecPrepare == PrepareInit /\ [][PrepareNext]_vars

\* ------------------------------------------------------------------------
\* core/signal_processor.py: filter_signals
\* ------------------------------------------------------------------------
\* the default of time_window_minutes, which generate_signals also passes
TimeWindowMinutes == 5

\* the Signal objects of the model
Signals == [stock_code : StockCodes, rule_number : FilterRules, timestamp : Timestamps]

RECURSIVE InsertByTimestamp(_, _)
\* sg placed behind every signal that is not later than it
InsertByTimestamp(sorted, sg) ==
    IF sorted = <<>> THEN <<sg>>
    ELSE IF Head(sorted).timestamp <= sg.timestamp
         THEN <<Head(sorted)>> \o InsertByTimestamp(Tail(sorted), sg)
         ELSE <<sg>> \o sorted

RECURSIVE SortedByTimestamp_Reversed(_)
\* sorted(...) with the input taken from its end: equal timestamps swap
SortedByTimestamp_Reversed(list) ==
    IF list = <<>> THEN <<>>
    ELSE InsertByTimestamp(SortedByTimestamp_Reversed(Tail(list)), Head(list))

RECURSIVE SortedByTimestamp(_)
\* line 173: sorted(signals, key=lambda x: x.timestamp), a stable sort
SortedByTimestamp(list) ==
    IF list = <<>> THEN <<>>
    ELSE InsertByTimestamp(SortedByTimestamp(SubSeq(list, 1, Len(list) - 1)),
                           list[Len(list)])

\* line 181: abs((a.timestamp - b.timestamp).total_seconds() / 60) as the
\* fraction of seconds over 60
TimeDiff(a, b) == Frac(Abs(a.timestamp - b.timestamp), 60)

\* lines 184-186: a is a duplicate of the accepted signal b
IsDuplicate(a, b, time_window_minutes) ==
    /\ a.stock_code = b.stock_code
    /\ a.rule_number = b.rule_number
    /\ Lt(TimeDiff(a, b), Frac(time_window_minutes, 1))

RECURSIVE FilterLoop_AllSeen(_, _, _, _)
\* FilterLoop that compares a signal with every earlier signal, accepted or not
FilterLoop_AllSeen(sorted, k, filtered, w) ==
    IF k > Len(sorted) THEN filtered
    ELSE IF \E j \in 1..(k - 1) : IsDuplicate(sorted[k], sorted[j], w)
         THEN FilterLoop_AllSeen(sorted, k + 1, filtered, w)
         ELSE FilterLoop_AllSeen(sorted, k + 1, Append(filtered, sorted[k]), w)

RECURSIVE FilterLoop(_, _, _, _)
\* lines 176-191: the walk over the sorted signals from the k-th on
FilterLoop(sorted, k, filtered, w) ==
    IF k > Len(sorted) THEN filtered
    ELSE IF \E j \in 1..Len(filtered) : IsDuplicate(sorted[k], filtered[j], w)
         THEN FilterLoop(sorted, k + 1, filtered, w)
         ELSE FilterLoop(sorted, k + 1, Append(filtered, sorted[k]), w)

\* filter_signals
filter_signals(list, time_window_minutes) ==
    IF list = <<>> THEN list
    ELSE FilterLoop(SortedByTimestamp(list), 1, <<>>, time_window_minutes)

SignalLists == UNION { [1..len -> Signals] : len \in 0..MaxSignals }

FilterInit ==
    /\ pc = "filter"
    /\ signal_list \in SignalLists
    /\ filtered_signals = <<>>
    /\ ApiIdle
    /\ NotifierIdle
    /\ df = NoFrame
    /\ ind = NoIndicators
    /\ signals = <<>>
    /\ applied = 0
    /\ n = 0
    /\ row = NoRow
    /\ take_profit_pct = 0
    /\ initial_capital = 0
    /\ cash = 0
    /\ shares = 0
    /\ entry_price = 0
    /\ transaction_records = <<>>
    /\ summary = NoSummary

\* filter_signals(signals, time_window_minutes=5)
FilterSignals ==
    /\ pc = "filter"
    /\ filtered_signals' = filter_signals(signal_list, TimeWindowMinutes)
    /\ pc' = "filtered"
    /\ UNCHANGED <<signal_list, btVars, ruleVars, apiVars,
                   notifierVars>>

FilterNext == FilterSignals

SpecFilter == FilterInit /\ [][FilterNext]_vars

\* ------------------------------------------------------------------------
\* core/data_processor.py: process_input_data
\* ------------------------------------------------------------------------
\* A DataFrame of bars is the set of its column names and the sequence of
\* its rows in index order.  date is a timestamp in seconds; the other cells
\* are numbers or NaN.
SecondsPerDay == 86400

\* Timestamp.date() / datetime.date()
DateOf(ts) == ts \div SecondsPerDay

\* line 84: required_columns
required_columns == {"date", "open", "high", "low", "close", "volume"}

\* lines 188 and 233: price_columns, in the order the checks take them
price_columns == <<"open", "high", "low", "close">>

\* a call that raised error_type(message)
Raised(error_type, message) ==
    [called |-> TRUE, ok |-> FALSE, error_type |-> error_type, message |-> message,
     frame |-> NoBars]

\* a call that returned the DataFrame f
Returned(f) ==
    [called |-> TRUE, ok |-> TRUE, error_type |-> "", message |-> "", frame |-> f]

\* df.empty: an axis of length 0
IsEmptyFrame(f) == f.columns = {} \/ Len(f.rows) = 0

\* _perform_quality_checks that lets a price of 0 pass
perform_quality_checks_ZeroAllowed(f) ==
    IF \E k \in 1..Len(price_columns) : \E i \in 1..Len(f.rows) :
          Lt(f.rows[i][price_columns[k]], Frac(0, 1))
    THEN "Found non-positive values"
    ELSE IF \E i \in 1..Len(f.rows) : Lt(f.rows[i].volume, Frac(0, 1))
    THEN "Found negative volume values"
    ELSE ""

\* _perform_quality_checks: the message of the DataValidationError it raises,
\* "" when it returns.  The OHLC and extreme-move checks only log.
perform_quality_checks(f) ==
    IF \E k \in 1..Len(price_columns) : \E i \in 1..Len(f.rows) :
          Le(f.rows[i][price_columns[k]], Frac(0, 1))
    THEN "Found non-positive values"
    ELSE IF \E i \in 1..Len(f.rows) : Lt(f.rows[i].volume, Frac(0, 1))
    THEN "Found negative volume values"
    ELSE ""

\* fillna(method='ffill').fillna(method='bfill') of cell i of a column
FilledPrice(rows, col, i) ==
    IF \E j \in 1..i : ~IsNaN(rows[j][col])
    THEN rows[CHOOSE j \in 1..i :
                 /\ ~IsNaN(rows[j][col])
                 /\ \A h \in (j + 1)..i : IsNaN(rows[h][col])][col]
    ELSE IF \E j \in (i + 1)..Len(rows) : ~IsNaN(rows[j][col])
    THEN rows[CHOOSE j \in (i + 1)..Len(rows) :
                 /\ ~IsNaN(rows[j][col])
                 /\ \A h \in (i + 1)..(j - 1) : IsNaN(rows[h][col])][col]
    ELSE NaN

\* a row holds a missing value
HasMissing(r) ==
    IsNaN(r.open) \/ IsNaN(r.high) \/ IsNaN(r.low) \/ IsNaN(r.close) \/ IsNaN(r.volume)

\* _handle_missing_values: prices filled forward then backward, volume
\* filled with 0, rows that still miss a value dropped
handle_missing_values(f) ==
    IF \E i \in 1..Len(f.rows) : HasMissing(f.rows[i])
    THEN LET filled == [i \in 1..Len(f.rows) |->
                          [date |-> f.rows[i].date,
                           open |-> FilledPrice(f.rows, "open", i),
                           high |-> FilledPrice(f.rows, "high", i),
                           low |-> FilledPrice(f.rows, "low", i),
                           close |-> FilledPrice(f.rows, "close", i),
                           volume |-> IF IsNaN(f.rows[i].volume) THEN Frac(0, 1)
                                      ELSE f.rows[i].volume]]
         IN  [columns |-> f.columns,
              rows |-> SelectSeq(filled, LAMBDA r : ~HasMissing(r))]
    ELSE f

\* the orders sort_values('date') may leave the rows in: ascending date;
\* the default sort is not stable, so rows of one date come in any order
SortedByDate(rows) ==
    IF \A i, j \in 1..Len(rows) : i # j => rows[i].date # rows[j].date
    THEN { [k \in 1..Len(rows) |->
              rows[CHOOSE i \in 1..Len(rows) :
                      Cardinality({j \in 1..Len(rows) : rows[j].date < rows[i].date})
                         = k - 1]] }
    ELSE { [k \in 1..Len(rows) |-> rows[p[k]]] :
              p \in { q \in [1..Len(rows) -> 1..Len(rows)] :
                        /\ \A i, j \in 1..Len(rows) : i # j => q[i] # q[j]
                        /\ \A i \in 1..(Len(rows) - 1) :
                              rows[q[i]].date <= rows[q[i + 1]].date } }

\* validate_and_clean_data: the results the call may have
validate_and_clean_data(f) ==
    IF IsEmptyFrame(f)
    THEN {Raised("DataValidationError", "Input DataFrame is empty")}
    ELSE IF ~(required_columns \subseteq f.columns)
    THEN {Raised("DataValidationError", "Missing required columns")}
    ELSE IF perform_quality_checks(f) # ""
    THEN {Raised("DataValidationError", perform_quality_checks(f))}
    ELSE { Returned([columns |-> f.columns, rows |-> s]) :
              s \in SortedByDate(handle_missing_values(f).rows) }

\* max and min of two numbers
MaxOf(x, y) == IF Ge(x, y) THEN x ELSE y
MinOf(x, y) == IF Le(x, y) THEN x ELSE y

\* merge_realtime_data that adds a row also on the date of the last row
merge_realtime_data_AlwaysAppend(f, current_price, current_volume, timestamp) ==
    IF IsEmptyFrame(f) THEN Raised("DataValidationError", "Historical data is empty")
    ELSE IF current_price <= 0 THEN Returned(f)
    ELSE Returned([columns |-> f.columns,
                   rows |-> Append(f.rows,
                      [date |-> timestamp,
                       open |-> Frac(current_price, 1),
                       high |-> Frac(current_price, 1),
                       low |-> Frac(current_price, 1),
                       close |-> Frac(current_price, 1),
                       volume |-> Frac(current_volume, 1)])])

\* merge_realtime_data
merge_realtime_data(f, current_price, current_volume, timestamp) ==
    IF IsEmptyFrame(f) THEN Raised("DataValidationError", "Historical data is empty")
    ELSE IF current_price <= 0 THEN Returned(f)
    ELSE LET last_idx == Len(f.rows)
             last == f.rows[last_idx]
         IN  IF DateOf(last.date) = DateOf(timestamp)
             THEN Returned([columns |-> f.columns,
                            rows |-> [f.rows EXCEPT ![last_idx] =
                               [date |-> last.date,
                                open |-> last.open,
                                high |-> MaxOf(last.high, Frac(current_price, 1)),
                                low |-> MinOf(last.low, Frac(current_price, 1)),
                                close |-> Frac(current_price, 1),
                                volume |-> Add(last.volume, Frac(current_volume, 1))]]])
             ELSE Returned([columns |-> f.columns,
                            rows |-> Append(f.rows,
                               [date |-> timestamp,
                                open |-> Frac(current_price, 1),
                                high |-> Frac(current_price, 1),
                                low |-> Frac(current_price, 1),
                                close |-> Frac(current_price, 1),
                                volume |-> Frac(current_volume, 1)])])

\* process_input_data: the results the call may have.  Every exception
\* leaves as a DataValidationError.
process_input_data(historical_df, realtime_data) ==
    { IF ~cleaned.ok
      THEN Raised("DataValidationError", "Data processing failed")
      ELSE IF realtime_data.given
      THEN LET merged == merge_realtime_data(cleaned.frame, realtime_data.price,
                                             realtime_data.volume,
                                             realtime_data.timestamp)
           IN  IF merged.ok THEN merged
               ELSE Raised("DataValidationError", "Data processing failed")
      ELSE cleaned :
        cleaned \in validate_and_clean_data(historical_df) }

\* the frames and real-time dicts of the model -----------------------------
\* rows of a historical frame: dates at midnight of day 1 and day 2
IngestDates == {86400, 172800}

\* open, high, low, close of a row: two well-formed bars, a bar whose close
\* is 0 and a bar whose close is missing
IngestPrices ==
    { [open |-> Frac(10, 1), high |-> Frac(12, 1), low |-> Frac(9, 1), close |-> Frac(11, 1)],
      [open |-> Frac(20, 1), high |-> Frac(22, 1), low |-> Frac(19, 1), close |-> Frac(21, 1)],
      [open |-> Frac(10, 1), high |-> Frac(12, 1), low |-> Frac(9, 1), close |-> Frac(0, 1)],
      [open |-> Frac(10, 1), high |-> Frac(12, 1), low |-> Frac(9, 1), close |-> NaN] }

IngestVolumes == {Frac(-1, 1), Frac(5, 1), NaN}

IngestRows ==
    { [date |-> d, open |-> p.open, high |-> p.high, low |-> p.low, close |-> p.close,
       volume |-> v] : d \in IngestDates, p \in IngestPrices, v \in IngestVolumes }

\* longest historical frame given to process_input_data
MaxIngestRows == 2

IngestColumns == {required_columns, required_columns \ {"volume"}}

IngestFrames ==
    { [columns |-> c, rows |-> r] :
        c \in IngestColumns,
        r \in UNION { [1..len -> IngestRows] : len \in 0..MaxIngestRows } }

\* real-time dicts: a price of 0 (also a dict without 'price') or 13, at
\* 10:00 of day 0, day 2 and day 3
RealtimeDicts ==
    {NoData} \cup
    { [given |-> TRUE, price |-> p, volume |-> 3, timestamp |-> t] :
        p \in {0, 13}, t \in {36000, 208800, 295200} }

\* the variables of the backtest, the classification and the filter while
\* none of them is running
CoreIdle ==
    /\ n = 0
    /\ row = NoRow
    /\ take_profit_pct = 0
    /\ initial_capital = 0
    /\ cash = 0
    /\ shares = 0
    /\ entry_price = 0
    /\ transaction_records = <<>>
    /\ summary = NoSummary
    /\ df = NoFrame
    /\ ind = NoIndicators
    /\ signals = <<>>
    /\ applied = 0
    /\ signal_list = <<>>
    /\ filtered_signals = <<>>

IngestInit ==
    /\ pc = "ingest"
    /\ historical_data \in IngestFrames
    /\ current_data \in RealtimeDicts
    /\ config = NotCalled
    /\ processed_data = NotCalled
    /\ generated_signals = NotCalled
    /\ indicators_df = NotCalled
    /\ api_response = NotCalled
    /\ confidence = NotCalled
    /\ CoreIdle
    /\ NotifierIdle

\* process_input_data(historical_df, realtime_data)
ProcessInputData ==
    /\ pc = "ingest"
    /\ \E result \in process_input_data(historical_data, current_data) :
          processed_data' = result
    /\ pc' = "ingested"
    /\ UNCHANGED <<historical_data, current_data, config, generated_signals,
                   indicators_df, api_response, confidence,
                   btVars, ruleVars, filterVars,
                   notifierVars>>

IngestNext == ProcessInputData

SpecIngest == IngestInit /\ [][IngestNext]_vars

\* ------------------------------------------------------------------------
\* core/signal_processor.py: calculate_indicators and generate_signals
\* ------------------------------------------------------------------------
\* a column of a DataFrame of bars
Column(f, col) == [t \in 1..Len(f.rows) |-> f.rows[t][col]]

\* Series.pct_change(periods)
PctChange(col, periods) ==
    [t \in DOMAIN col |-> Sub(Div(col[t], Shifted(col, t, periods)), Frac(1, 1))]

\* the periods of _calculate_ma_slope and of price_change_3d
SlopePeriods == 3
MomentumPeriods == 3

\* _calculate_ma_slope: ma_series.diff(periods) / periods
calculate_ma_slope(ma, periods) ==
    [t \in DOMAIN ma |-> Over(Sub(ma[t], Shifted(ma, t, periods)), periods)]

MaxInt(a, b) == IF a >= b THEN a ELSE b

\* calculate_indicators: the frame with the indicator columns, or the
\* SignalProcessingError it raises
calculate_indicators(f, ma_window, vol_window) ==
    IF IsEmptyFrame(f)
    THEN Raised("SignalProcessingError", "Input DataFrame is empty")
    ELSE IF Len(f.rows) < MaxInt(ma_window, vol_window)
    THEN Raised("SignalProcessingError", "Insufficient data")
    ELSE IF ~({"close", "volume"} \subseteq f.columns)
    THEN Raised("SignalProcessingError", "Indicator calculation failed")
    ELSE LET ma == RollingMean(Column(f, "close"), ma_window)
             vol_avg == RollingMean(Column(f, "volume"), vol_window)
         IN  Returned([columns |-> f.columns \cup {"ma", "vol_avg", "ma_slope",
                                       "price_ma_ratio", "volume_ratio",
                                       "price_change", "price_change_3d"},
                       rows |-> f.rows,
                       ma |-> ma,
                       vol_avg |-> vol_avg,
                       ma_slope |-> calculate_ma_slope(ma, SlopePeriods),
                       price_ma_ratio |->
                           [t \in 1..Len(f.rows) |-> Div(f.rows[t].close, ma[t])],
                       volume_ratio |->
                           [t \in 1..Len(f.rows) |-> Div(f.rows[t].volume, vol_avg[t])],
                       price_change |-> PctChange(Column(f, "close"), 1),
                       price_change_3d |-> PctChange(Column(f, "close"), MomentumPeriods)])

\* the smaller of two numbers, for min(0.2, ...) and min(1.0, ...)
MinF(x, y) == IF Le(x, y) THEN x ELSE y

\* _calculate_signal_confidence without the final clamp
calculate_signal_confidence_Unclamped(d, rule_number, position) ==
    LET vol_factor ==
            IF "volume_ratio" \in d.columns /\ position <= Len(d.rows)
            THEN IF Gt(d.volume_ratio[position], Frac(3, 2)) THEN Frac(1, 5)
                 ELSE IF Gt(d.volume_ratio[position], Frac(6, 5)) THEN Frac(1, 10)
                 ELSE Frac(0, 1)
            ELSE Frac(0, 1)
        trend_factor ==
            IF "ma_slope" \in d.columns /\ position <= Len(d.rows)
               /\ ~IsNaN(d.ma_slope[position])
            THEN MinF(Frac(1, 5), Times(AbsF(d.ma_slope[position]), 10))
            ELSE Frac(0, 1)
        momentum_factor ==
            IF "price_change_3d" \in d.columns /\ position <= Len(d.rows)
               /\ ~IsNaN(d.price_change_3d[position])
            THEN MinF(Frac(1, 10), Times(AbsF(d.price_change_3d[position]), 5))
            ELSE Frac(0, 1)
    IN  Add(Add(Add(Frac(3, 5), vol_factor), trend_factor), momentum_factor)

\* _calculate_signal_confidence: position counts the rows from 1
calculate_signal_confidence(d, rule_number, position) ==
    LET vol_factor ==
            IF "volume_ratio" \in d.columns /\ position <= Len(d.rows)
            THEN IF Gt(d.volume_ratio[position], Frac(3, 2)) THEN Frac(1, 5)
                 ELSE IF Gt(d.volume_ratio[position], Frac(6, 5)) THEN Frac(1, 10)
                 ELSE Frac(0, 1)
            ELSE Frac(0, 1)
        trend_factor ==
            IF "ma_slope" \in d.columns /\ position <= Len(d.rows)
               /\ ~IsNaN(d.ma_slope[position])
            THEN MinF(Frac(1, 5), Times(AbsF(d.ma_slope[position]), 10))
            ELSE Frac(0, 1)
        momentum_factor ==
            IF "price_change_3d" \in d.columns /\ position <= Len(d.rows)
               /\ ~IsNaN(d.price_change_3d[position])
            THEN MinF(Frac(1, 10), Times(AbsF(d.price_change_3d[position]), 5))
            ELSE Frac(0, 1)
        sum == Add(Add(Add(Frac(3, 5), vol_factor), trend_factor), momentum_factor)
    IN  MaxOf(Frac(0, 1), MinF(Frac(1, 1), sum))

\* _apply_granville_rules that returns a Signal for every row that carries a
\* rule number
apply_granville_rules_EveryRow(d, cfg) ==
    LET signal_series ==
            granville_eight_rules([N |-> Len(d.rows),
                                   Close |-> Column(d, "close"),
                                   ma |-> d.ma,
                                   Volume |-> Column(d, "volume"),
                                   vol_ma |-> d.vol_avg])
        fired == SelectSeq([t \in 1..Len(d.rows) |-> t], LAMBDA t : signal_series[t] # 0)
    IN  [k \in 1..Len(fired) |->
            [stock_code |-> "UNKNOWN",
             rule_number |-> signal_series[fired[k]],
             signal_type |-> IF signal_series[fired[k]] <= 4 THEN "BUY" ELSE "SELL",
             timestamp |-> d.rows[fired[k]].date,
             price |-> d.rows[fired[k]].close,
             confidence |->
                 calculate_signal_confidence(d, signal_series[fired[k]], fired[k])]]

\* _apply_granville_rules: the list with the Signal of the latest row that
\* carries a rule number, or the empty list
apply_granville_rules(d, cfg) ==
    LET signal_series ==
            granville_eight_rules([N |-> Len(d.rows),
                                   Close |-> Column(d, "close"),
                                   ma |-> d.ma,
                                   Volume |-> Column(d, "volume"),
                                   vol_ma |-> d.vol_avg])
        latest_signals == {t \in 1..Len(d.rows) : signal_series[t] # 0}
    IN  IF latest_signals = {} THEN <<>>
        ELSE LET latest_signal_idx == CHOOSE t \in latest_signals :
                                         \A u \in latest_signals : u <= t
                 rule_num == signal_series[latest_signal_idx]
             IN  << [stock_code |-> "UNKNOWN",
                     rule_number |-> rule_num,
                     signal_type |-> IF rule_num <= 4 THEN "BUY" ELSE "SELL",
                     timestamp |-> d.rows[latest_signal_idx].date,
                     price |-> d.rows[latest_signal_idx].close,
                     confidence |->
                         calculate_signal_confidence(d, rule_num, latest_signal_idx)] >>

\* a call of generate_signals that raised
SignalsRaised(message) ==
    [called |-> TRUE, ok |-> FALSE, error_type |-> "SignalProcessingError",
     message |-> message, signals |-> <<>>]

\* a call of generate_signals that returned a list
SignalsReturned(list) ==
    [called |-> TRUE, ok |-> TRUE, error_type |-> "", message |-> "", signals |-> list]

\* generate_signals: every exception leaves as a SignalProcessingError
generate_signals(f, cfg) ==
    LET indicators == calculate_indicators(f, cfg.ma_period, cfg.volume_period)
    IN  IF ~indicators.ok THEN SignalsRaised("Signal generation failed")
        ELSE LET raw_signals == apply_granville_rules(indicators.frame, cfg)
             IN  SignalsReturned(IF cfg.enable_signal_filter
                                 THEN filter_signals(raw_signals, TimeWindowMinutes)
                                 ELSE raw_signals)

\* ------------------------------------------------------------------------
\* core/main_api.py: analyze_stock
\* ------------------------------------------------------------------------
\* no AnalysisResult
NoResult == [present |-> FALSE, stock_code |-> "", signals |-> <<>>]

\* _update_signal_stock_codes
update_signal_stock_codes(list, stock_code) ==
    [i \in 1..Len(list) |->
        IF list[i].stock_code = "UNKNOWN" \/ list[i].stock_code = ""
        THEN [list[i] EXCEPT !.stock_code = stock_code]
        ELSE list[i]]

\* format_analysis_result: the AnalysisResult
format_analysis_result(list, stock_code) ==
    [present |-> TRUE, stock_code |-> stock_code,
     signals |-> update_signal_stock_codes(list, stock_code)]

\* create_api_response that reports a failure as a success
create_api_response_AlwaysSuccess(result, success, error_message, error_type) ==
    [called |-> TRUE, success |-> TRUE, data |-> result,
     error_message |-> error_message,
     metadata |-> [version |-> "1.0", error_type |-> error_type,
                   signal_count |-> IF result.present THEN Len(result.signals) ELSE 0]]

\* create_api_response: error_type is the entry of additional_metadata, ""
\* when it has none
create_api_response(result, success, error_message, error_type) ==
    [called |-> TRUE, success |-> success, data |-> result,
     error_message |-> error_message,
     metadata |-> [version |-> "1.0", error_type |-> error_type,
                   signal_count |-> IF success /\ result.present
                                    THEN Len(result.signals) ELSE 0]]

\* the frames, configs and real-time dicts of the model ---------------------
\* longest historical frame given to analyze_stock
MaxAnalyzeRows == 4

\* close of a bar (open, high and low equal it); 0 is a malformed bar
AnalyzeCloses == {0, 100, 110}
AnalyzeVolumes == {5, 10}

\* a frame whose row t is dated midnight of day t
AnalyzeFrame(len, closes, volumes) ==
    [columns |-> required_columns,
     rows |-> [t \in 1..len |->
                 [date |-> t * SecondsPerDay,
                  open |-> Frac(closes[t], 1), high |-> Frac(closes[t], 1),
                  low |-> Frac(closes[t], 1), close |-> Frac(closes[t], 1),
                  volume |-> Frac(volumes[t], 1)]]]

AnalyzeFrames ==
    UNION { { AnalyzeFrame(len, c, v) :
                c \in [1..len -> AnalyzeCloses], v \in [1..len -> AnalyzeVolumes] } :
            len \in 0..MaxAnalyzeRows }

\* SignalConfig objects: ma_period, volume_period, enable_signal_filter
Configs ==
    { [called |-> TRUE, ma_period |-> 2, volume_period |-> 1, enable_signal_filter |-> TRUE],
      [called |-> TRUE, ma_period |-> 2, volume_period |-> 3, enable_signal_filter |-> FALSE],
      [called |-> TRUE, ma_period |-> 3, volume_period |-> 2, enable_signal_filter |-> TRUE] }

\* no real-time dict, or a price of 120 at 10:00 of the day after the
\* longest frame
AnalyzeRealtime ==
    { NoData,
      [given |-> TRUE, price |-> 120, volume |-> 20,
       timestamp |-> (MaxAnalyzeRows + 1) * SecondsPerDay + 36000] }

\* before the call
AnalyzeInit ==
    /\ pc = "idle"
    /\ historical_data = NoBars
    /\ current_data = NoData
    /\ config = NotCalled
    /\ processed_data = NotCalled
    /\ generated_signals = NotCalled
    /\ indicators_df = NotCalled
    /\ api_response = NotCalled
    /\ confidence = NotCalled
    /\ CoreIdle
    /\ NotifierIdle

\* lines 48-75: the call with its arguments
AnalyzeStock ==
    /\ pc = "idle"
    /\ historical_data' \in AnalyzeFrames
    /\ current_data' \in AnalyzeRealtime
    /\ config' \in Configs
    /\ pc' = "process"
    /\ UNCHANGED <<processed_data, generated_signals, indicators_df, api_response,
                   confidence, btVars, ruleVars, filterVars,
                   notifierVars>>

\* lines 76-82 and 139-145: step 1, and the response to a DataValidationError
ProcessStep ==
    /\ pc = "process"
    /\ \E result \in process_input_data(historical_data, current_data) :
          /\ processed_data' = result
          /\ IF result.ok
             THEN /\ pc' = "generate"
                  /\ UNCHANGED api_response
             ELSE /\ pc' = "responded"
                  /\ api_response' = create_api_response(NoResult, FALSE,
                                         "Data validation failed", "DataValidationError")
    /\ UNCHANGED <<historical_data, current_data, config, generated_signals,
                   indicators_df, confidence, btVars, ruleVars, filterVars,
                   notifierVars>>

\* lines 84-89 and 147-153: step 2, and the response to a SignalProcessingError;
\* indicators_df is the outcome of the call of calculate_indicators inside
\* generate_signals
SignalStep ==
    /\ pc = "generate"
    /\ indicators_df' = calculate_indicators(processed_data.frame, config.ma_period,
                                             config.volume_period)
    /\ generated_signals' = generate_signals(processed_data.frame, config)
    /\ IF generated_signals'.ok
       THEN /\ pc' = "indicators"
            /\ UNCHANGED api_response
       ELSE /\ pc' = "responded"
            /\ api_response' = create_api_response(NoResult, FALSE,
                                   "Signal processing failed", "SignalProcessingError")
    /\ UNCHANGED <<historical_data, current_data, config, processed_data,
                   confidence, btVars, ruleVars, filterVars,
                   notifierVars>>

\* lines 91-100 and 147-153: step 3
IndicatorStep ==
    /\ pc = "indicators"
    /\ indicators_df' = calculate_indicators(processed_data.frame, config.ma_period,
                                             config.volume_period)
    /\ IF indicators_df'.ok
       THEN /\ pc' = "format"
            /\ UNCHANGED api_response
       ELSE /\ pc' = "responded"
            /\ api_response' = create_api_response(NoResult, FALSE,
                                   "Signal processing failed", "SignalProcessingError")
    /\ UNCHANGED <<historical_data, current_data, config, processed_data,
                   generated_signals, confidence, btVars, ruleVars, filterVars,
                   notifierVars>>

\* lines 102-137: steps 4 and 5
FormatStep ==
    /\ pc = "format"
    /\ api_response' = create_api_response(
                           format_analysis_result(generated_signals.signals, StockId),
                           TRUE, "", "")
    /\ pc' = "responded"
    /\ UNCHANGED <<historical_data, current_data, config, processed_data,
                   generated_signals, indicators_df, confidence,
                   btVars, ruleVars, filterVars,
                   notifierVars>>

AnalyzeNext ==
    \/ AnalyzeStock
    \/ ProcessStep
    \/ SignalStep
    \/ IndicatorStep
    \/ FormatStep

SpecAnalyze == AnalyzeInit /\ [][AnalyzeNext]_vars

\* ------------------------------------------------------------------------
\* core/signal_processor.py: _calculate_signal_confidence on its own
\* ------------------------------------------------------------------------
\* values of the three indicator columns at the row of the signal
VolumeRatios == {NaN, Frac(1, 1), Frac(6, 5), Frac(13, 10), Frac(3, 2), Frac(2, 1)}
MaSlopes == {NaN, Frac(0, 1), Frac(-1, 100), Frac(1, 50), Frac(-1, 1)}
PriceChanges == {NaN, Frac(0, 1), Frac(1, 100), Frac(-1, 50), Frac(1, 2)}

\* one-row frames that carry any subset of the three indicator columns
ConfidenceFrames ==
    { [columns |-> required_columns \cup cols,
       rows |-> AnalyzeFrame(1, <<100>>, <<5>>).rows,
       volume_ratio |-> <<v>>, ma_slope |-> <<s>>, price_change_3d |-> <<c>>] :
      cols \in SUBSET {"volume_ratio", "ma_slope", "price_change_3d"},
      v \in VolumeRatios, s \in MaSlopes, c \in PriceChanges }

ConfidenceInit ==
    /\ pc = "confidence"
    /\ indicators_df \in { Returned(f) : f \in ConfidenceFrames }
    /\ historical_data = NoBars
    /\ current_data = NoData
    /\ config = NotCalled
    /\ processed_data = NotCalled
    /\ generated_signals = NotCalled
    /\ api_response = NotCalled
    /\ confidence = NotCalled
    /\ CoreIdle
    /\ NotifierIdle

\* lines 291-338: one call, at the row of the frame or at the position after it
CalculateSignalConfidence ==
    /\ pc = "confidence"
    /\ \E rule_number \in 1..8, position \in 1..2 :
          confidence' = [called |-> TRUE, rule_number |-> rule_number,
                         position |-> position,
                         value |-> calculate_signal_confidence(indicators_df.frame,
                                                               rule_number, position)]
    /\ pc' = "scored"
    /\ UNCHANGED <<historical_data, current_data, config, processed_data,
                   generated_signals, indicators_df, api_response,
                   btVars, ruleVars, filterVars,
                   notifierVars>>

ConfidenceNext == CalculateSignalConfidence

SpecConfidence == ConfidenceInit /\ [][ConfidenceNext]_vars

\* ------------------------------------------------------------------------
\* Properties of the backtest
\* ------------------------------------------------------------------------
LastRecord(recs) == recs[Len(recs)]

\* C1: take-profit dominance.  When the sell step runs on a row while shares
\* are held and the row's High reaches entry_price*(1+take_profit_pct), one
\* SELL record of all shares is appended for that row, priced at
\* entry_price*(1+take_profit_pct), with profit
\* take_profit_pct*entry_price*shares, and cash grows by exactly that price
\* times the shares, whatever the three signal columns hold.
C1_TakeProfitDominance ==
    [][ ( /\ pc = "sell"
          /\ shares > 0
          /\ 100 * row.High >= entry_price * (100 + take_profit_pct) )
        => /\ Len(transaction_records') = Len(transaction_records) + 1
           /\ SubSeq(transaction_records', 1, Len(transaction_records))
                = transaction_records
           /\ LastRecord(transaction_records').action = "SELL"
           /\ LastRecord(transaction_records').date = row.date
           /\ LastRecord(transaction_records').shares = shares
           /\ LastRecord(transaction_records').price
                = Round2(entry_price * (100 + take_profit_pct))
           /\ LastRecord(transaction_records').realized_profit
                = Round2(take_profit_pct * entry_price * shares)
           /\ cash' = cash + entry_price * (100 + take_profit_pct) * shares
           /\ shares' = 0
      ]_vars

\* C1 witness: a take-profit sale on a row that also carries a Granville
\* sell signal and a death cross, at a price other than the row's close
C1_Witness ==
    /\ pc = "buy"
    /\ row.granville_signal \in {5, 6, 7, 8}
    /\ row.cross_signal = -1
    /\ Len(transaction_records) > 0
    /\ LastRecord(transaction_records).action = "SELL"
    /\ LastRecord(transaction_records).date = row.date
    /\ LastRecord(transaction_records).rule_label = TakeProfitLabel
    /\ LastRecord(transaction_records).price # Round2(100 * row.Close)

\* C2: end-of-series liquidation.  When the loop has ended with shares held,
\* exactly one SELL record is appended, dated the last row, priced at the
\* last row's Close, for all shares held; with no shares held nothing is
\* appended.  Every returned final position holds 0 shares of market value 0.
C2_ForcedLiquidation ==
    /\ [][ (pc = "loop" /\ pc' = "stats")
           => IF shares > 0
              THEN /\ Len(transaction_records') = Len(transaction_records) + 1
                   /\ SubSeq(transaction_records', 1, Len(transaction_records))
                        = transaction_records
                   /\ LastRecord(transaction_records').action = "SELL"
                   /\ LastRecord(transaction_records').date = row.date
                   /\ LastRecord(transaction_records').price = Round2(100 * row.Close)
                   /\ LastRecord(transaction_records').shares = shares
                   /\ cash' = cash + 100 * row.Close * shares
                   /\ shares' = 0
              ELSE /\ transaction_records' = transaction_records
                   /\ shares' = 0
         ]_vars
    /\ [](summary.returned
            => /\ summary.final_position.shares_held = 0
               /\ summary.final_position.market_value = 0)

\* C2 witness: a run that returned after a forced sale on its last row
C2_Witness ==
    /\ pc = "done"
    /\ summary.returned
    /\ Len(summary.trades) > 0
    /\ LastRecord(summary.trades).rule_label = ForcedLabel
    /\ LastRecord(summary.trades).date = n

\* C3: conservation.  Cash is never negative, so cash + shares*close >= 0
\* after every step, and a step that appends a SELL record leaves 0 shares.
C3_Conservation ==
    /\ [](/\ cash >= 0
          /\ shares >= 0
          /\ cash + shares * 100 * row.Close >= 0)
    /\ [][ ( /\ Len(transaction_records') > Len(transaction_records)
             /\ LastRecord(transaction_records').action = "SELL" )
           => shares' = 0 ]_vars

\* C3 witness: a sale at a loss has left the position flat with cash below
\* the initial capital, in the middle of a series
C3_Witness ==
    /\ pc = "buy"
    /\ shares = 0
    /\ Len(transaction_records) > 0
    /\ LastRecord(transaction_records).action = "SELL"
    /\ cash < initial_capital
    /\ cash > 0

\* the number of rows of a ledger that satisfy a test
CountRows(recs, Test(_)) == Cardinality({i \in DOMAIN recs : Test(recs[i])})

IsSell(t) == t.action = "SELL"

IsWinningSell(t) == t.action = "SELL" /\ t.realized_profit > 0

\* C8: performance counts.  total_trades is the number of SELL records of
\* the returned ledger; win_rate is the number of SELL records with a
\* positive realized profit over total_trades, and 0.0 without a SELL record;
\* win_rate lies in [0, 1].
C8_PerformanceCounts ==
    summary.returned =>
        /\ summary.total_trades = CountRows(summary.trades, IsSell)
        /\ summary.win_rate.den > 0
        /\ IF CountRows(summary.trades, IsSell) > 0
           THEN summary.win_rate.num * CountRows(summary.trades, IsSell)
                  = CountRows(summary.trades, IsWinningSell) * summary.win_rate.den
           ELSE summary.win_rate.num = 0
        /\ 0 <= summary.win_rate.num
        /\ summary.win_rate.num <= summary.win_rate.den

\* C8 witness: a returned ledger with a winning sale, a forced sale that
\* won nothing, and BUY records
C8_Witness ==
    /\ summary.returned
    /\ summary.total_trades = 2
    /\ summary.win_rate = [num |-> 1, den |-> 2]
    /\ Len(summary.trades) = 4
    /\ LastRecord(summary.trades).rule_label = ForcedLabel
    /\ LastRecord(summary.trades).realized_profit = 0

\* C19: sell-trigger priority.  The sell step of a row, run while shares are
\* held, appends at most one SELL record: at entry_price*(1+take_profit_pct)
\* with the take-profit label when the High reaches that price; otherwise at
\* the Close with the rule's label when granville_signal is 5..8; otherwise
\* at the Close with the death-cross label when cross_signal = -1; otherwise
\* at the Close with the breakdown label when breakout_signal = -1; and when
\* none matches it leaves cash, shares, entry_price and the ledger unchanged.
\* The buy step of the row appends no SELL record.
C19_SellPriority ==
    /\ [][ (pc = "sell" /\ shares > 0)
           => LET tp_hit == 100 * row.High >= entry_price * (100 + take_profit_pct)
                  gran_hit == row.granville_signal \in 5..8
                  cross_hit == row.cross_signal = -1
                  brk_hit == row.breakout_signal = -1
                  price == IF tp_hit THEN entry_price * (100 + take_profit_pct)
                           ELSE 100 * row.Close
                  label == IF tp_hit THEN TakeProfitLabel
                           ELSE IF gran_hit THEN RuleLabel(row.granville_signal)
                           ELSE IF cross_hit THEN DeathCrossLabel
                           ELSE BreakdownLabel
              IN  IF tp_hit \/ gran_hit \/ cross_hit \/ brk_hit
                  THEN /\ Len(transaction_records') = Len(transaction_records) + 1
                       /\ SubSeq(transaction_records', 1, Len(transaction_records))
                            = transaction_records
                       /\ LastRecord(transaction_records').action = "SELL"
                       /\ LastRecord(transaction_records').date = row.date
                       /\ LastRecord(transaction_records').price = Round2(price)
                       /\ LastRecord(transaction_records').rule_label = label
                       /\ LastRecord(transaction_records').shares = shares
                       /\ cash' = cash + price * shares
                       /\ shares' = 0
                  ELSE UNCHANGED <<cash, shares, entry_price, transaction_records>>
         ]_vars
    /\ [][ pc = "buy"
           => \A i \in (Len(transaction_records) + 1)..Len(transaction_records') :
                 transaction_records'[i].action # "SELL" ]_vars

\* C19 witness: a sale labelled death cross on a row where the breakdown
\* matches too, and neither the take-profit nor a Granville sell signal does
C19_Witness ==
    /\ pc = "buy"
    /\ row.cross_signal = -1
    /\ row.breakout_signal = -1
    /\ row.granville_signal \notin 5..8
    /\ Len(transaction_records) > 0
    /\ LastRecord(transaction_records).action = "SELL"
    /\ LastRecord(transaction_records).date = row.date
    /\ LastRecord(transaction_records).rule_label = DeathCrossLabel
    /\ LastRecord(transaction_records).price = Round2(100 * row.Close)

\* C20: buy trigger.  The buy step of a row appends a BUY record exactly when
\* no shares are held, granville_signal is 1..4, cross_signal or
\* breakout_signal is 1, and floor(cash/close) > 0; it then holds
\* floor(cash/close) shares, cash is lower by shares*close and entry_price is
\* the Close.  Otherwise cash, shares and the ledger are unchanged.
C20_BuyTrigger ==
    [][ pc = "buy"
        => LET floor_shares == cash \div (100 * row.Close)
           IN  IF /\ shares = 0
                  /\ row.granville_signal \in 1..4
                  /\ (row.cross_signal = 1 \/ row.breakout_signal = 1)
                  /\ floor_shares > 0
               THEN /\ Len(transaction_records') = Len(transaction_records) + 1
                    /\ SubSeq(transaction_records', 1, Len(transaction_records))
                         = transaction_records
                    /\ LastRecord(transaction_records').action = "BUY"
                    /\ LastRecord(transaction_records').date = row.date
                    /\ LastRecord(transaction_records').shares = floor_shares
                    /\ LastRecord(transaction_records').price = Round2(100 * row.Close)
                    /\ shares' = floor_shares
                    /\ cash' = cash - floor_shares * 100 * row.Close
                    /\ entry_price' = row.Close
               ELSE UNCHANGED <<cash, shares, transaction_records>>
      ]_vars

\* C20 witness: a purchase on a breakout without a golden cross that left
\* part of the cash unspent
C20_Witness ==
    /\ pc = "loop"
    /\ n >= 1
    /\ row.cross_signal # 1
    /\ row.breakout_signal = 1
    /\ Len(transaction_records) > 0
    /\ LastRecord(transaction_records).action = "BUY"
    /\ LastRecord(transaction_records).date = row.date
    /\ shares > 0
    /\ cash > 0

\* C20 witness of the other case: the trigger held on a row but nothing
\* could be bought with the cash at hand
C20_NothingBought ==
    /\ pc = "loop"
    /\ n >= 1
    /\ row.granville_signal \in 1..4
    /\ row.cross_signal = 1
    /\ shares = 0
    /\ transaction_records = <<>>

\* the sell step of the current row has sold the position
SoldOnRow ==
    /\ Len(transaction_records) > 0
    /\ LastRecord(transaction_records).action = "SELL"
    /\ LastRecord(transaction_records).date = row.date

\* the buy trigger of the current row
TriggerOnRow ==
    /\ row.granville_signal \in 1..4
    /\ (row.cross_signal = 1 \/ row.breakout_signal = 1)

\* the buy step appends a BUY record of the current row right after the
\* ledger's last record, bought with the cash at hand at the row's Close
RebuysOnRow ==
    /\ Len(transaction_records') = Len(transaction_records) + 1
    /\ SubSeq(transaction_records', 1, Len(transaction_records)) = transaction_records
    /\ LastRecord(transaction_records').action = "BUY"
    /\ LastRecord(transaction_records').date = row.date
    /\ LastRecord(transaction_records').price = Round2(100 * row.Close)
    /\ shares' = cash \div (100 * row.Close)
    /\ shares' > 0
    /\ cash' = cash - shares' * 100 * row.Close
    /\ entry_price' = row.Close

\* C21 as stated: when a position is sold on a row and the buy trigger holds
\* on that row, a BUY is executed on the same row after the SELL, with the
\* post-sale cash and the row's Close as entry_price, and the ledger holds
\* the SELL record immediately followed by the BUY record, both dated that
\* row.
C21_SameBarSellThenBuy ==
    [][ (pc = "buy" /\ SoldOnRow /\ TriggerOnRow) => RebuysOnRow ]_vars

\* C21: when a position is sold on a row and the buy trigger holds on that
\* row, a BUY is executed on the same row after the SELL provided the
\* post-sale cash buys at least one share at the row's Close; the BUY then
\* uses the post-sale cash and the row's Close as entry_price, and the ledger
\* holds the SELL record immediately followed by the BUY record, both dated
\* that row.  When the post-sale cash is below the Close (a take-profit sale
\* under the Close) nothing is bought and the position stays flat.
C21_SameBarRebuy ==
    [][ (pc = "buy" /\ SoldOnRow /\ TriggerOnRow)
        => IF cash \div (100 * row.Close) > 0
           THEN RebuysOnRow
           ELSE UNCHANGED <<cash, shares, entry_price, transaction_records>>
      ]_vars

\* C21 witness: a SELL and a BUY of the same row, one after the other
C21_Witness ==
    /\ pc = "loop"
    /\ Len(transaction_records) >= 3
    /\ transaction_records[Len(transaction_records) - 1].action = "SELL"
    /\ transaction_records[Len(transaction_records) - 1].date = row.date
    /\ LastRecord(transaction_records).action = "BUY"
    /\ LastRecord(transaction_records).date = row.date
    /\ entry_price = row.Close
    /\ shares > 0

\* C21 witness of the other case: a take-profit sale under the Close left
\* too little cash for one share, on a row where the buy trigger holds
C21_NoRebuy ==
    /\ pc = "loop"
    /\ n >= 1
    /\ SoldOnRow
    /\ TriggerOnRow
    /\ shares = 0
    /\ cash > 0

\* C22: forced-liquidation label.  The SELL record appended after the loop
\* carries the forced-liquidation label and no rule description or trigger
\* label: after the loop shares are never held while the last row's
\* granville_signal is 5..8.
C22_ForcedLabel ==
    /\ []((pc = "loop" /\ n >= 1 /\ shares > 0) => row.granville_signal \notin 5..8)
    /\ [][ (pc = "loop" /\ pc' = "stats" /\ shares > 0)
           => /\ Len(transaction_records') = Len(transaction_records) + 1
              /\ LastRecord(transaction_records').action = "SELL"
              /\ LastRecord(transaction_records').rule_label = ForcedLabel
              /\ LastRecord(transaction_records').rule_label
                    \notin {RuleLabel(g) : g \in 1..8}
                       \cup {TakeProfitLabel, DeathCrossLabel, BreakdownLabel}
         ]_vars

\* C22 witness: a position opened on the last row, whose granville_signal is
\* a buy rule, has been sold with the forced-liquidation label
C22_Witness ==
    /\ pc = "stats"
    /\ row.granville_signal \in 1..4
    /\ Len(transaction_records) >= 2
    /\ LastRecord(transaction_records).action = "SELL"
    /\ LastRecord(transaction_records).rule_label = ForcedLabel
    /\ transaction_records[Len(transaction_records) - 1].action = "BUY"
    /\ transaction_records[Len(transaction_records) - 1].date = row.date

\* a row with a Granville sell signal ends flat: the position held before it
\* was sold by its sell step
C22_SellSignalOnLastRow ==
    /\ pc = "stats"
    /\ row.granville_signal \in 5..8
    /\ Len(transaction_records) > 0
    /\ LastRecord(transaction_records).date = row.date
    /\ LastRecord(transaction_records).rule_label = RuleLabel(row.granville_signal)

\* a step has appended a SELL record
AppendsSell ==
    /\ Len(transaction_records') = Len(transaction_records) + 1
    /\ LastRecord(transaction_records').action = "SELL"

\* the profit (price - entry_price)*shares of the sale a step makes, in
\* money units, before any rounding
UnroundedProfit == (cash' - cash) - PriceUnits(entry_price) * shares

\* C23: win_rate is computed from unrounded profit.  Every SELL whose profit
\* (price - entry_price)*shares is strictly positive is a SELL that counts as
\* a win, however small the profit, so a run with one SELL that ended with
\* more cash than the initial capital has win_rate 1.
C23_UnroundedWins ==
    /\ [][ (AppendsSell /\ UnroundedProfit > 0)
           => IsWinningSell(LastRecord(transaction_records')) ]_vars
    /\ []((summary.returned /\ summary.total_trades = 1
             /\ summary.final_value > summary.initial_capital)
          => summary.win_rate = [num |-> 1, den |-> 1])

\* the cash plus the cost of the shares held, in money units: the initial
\* capital plus the profit realized so far
BookValue(c, sh, e) == c + sh * PriceUnits(e)

\* the price per share of the sale a step makes, in money units: the
\* take-profit price when the High reaches it in the loop, else the Close
SalePrice ==
    IF pc = "sell" /\ 100 * row.High >= entry_price * (100 + take_profit_pct)
    THEN entry_price * (100 + take_profit_pct)
    ELSE 100 * row.Close

\* C24: accounting identity.  Every SELL adds its unrounded realized profit
\* (price - entry_price)*shares to the cash plus cost of shares held, every
\* BUY leaves cash + shares*close unchanged and no other step changes cash or
\* shares, so the final cash is initial_capital plus the sum of the realized
\* profits; total_return is (final cash - initial_capital)/initial_capital,
\* and without a trade the final cash is initial_capital.
C24_AccountingIdentity ==
    /\ [][ IF AppendsSell
           THEN /\ shares' = 0
                /\ cash' = BookValue(cash, shares, entry_price)
                             + (SalePrice - 100 * entry_price) * shares
           ELSE IF Len(transaction_records') > Len(transaction_records)
           THEN /\ LastRecord(transaction_records').action = "BUY"
                /\ cash' + shares' * 100 * row.Close = cash + shares * 100 * row.Close
                /\ BookValue(cash', shares', entry_price') = cash
           ELSE UNCHANGED <<cash, shares>>
         ]_vars
    /\ [](summary.returned
            => /\ summary.final_value = cash
               /\ shares = 0
               /\ summary.total_return.num = cash - initial_capital
               /\ summary.total_return.den = initial_capital
               /\ summary.trades = <<>> => summary.final_value = initial_capital)

\* C24 witness: a run of two sales returned with a final cash that is not a
\* whole number of cents
C24_Witness ==
    /\ summary.returned
    /\ summary.total_trades = 2
    /\ summary.final_value # summary.initial_capital
    /\ summary.final_value % CentUnits # 0

\* C24 witness of the run without a trade
C24_NoTrade ==
    /\ summary.returned
    /\ summary.trades = <<>>
    /\ n = MaxBars

\* C25: ledger alternation.  The records of a returned ledger alternate BUY,
\* SELL, BUY, SELL, ...: the first is a BUY, the last is a SELL, there are as
\* many BUY as SELL records, and each SELL sells the share count of the BUY
\* right before it.  While the run goes on the ledger alternates in the same
\* way and ends with a BUY exactly when shares are held.
C25_LedgerAlternation ==
    /\ \A i \in DOMAIN transaction_records :
          IF i % 2 = 1
          THEN transaction_records[i].action = "BUY"
          ELSE /\ transaction_records[i].action = "SELL"
               /\ transaction_records[i].shares = transaction_records[i - 1].shares
    /\ shares > 0 <=> Len(transaction_records) % 2 = 1
    /\ summary.returned =>
          /\ summary.trades = transaction_records
          /\ Len(summary.trades) % 2 = 0
          /\ CountRows(summary.trades, IsSell) * 2 = Len(summary.trades)
          /\ summary.trades # <<>> =>
                /\ summary.trades[1].action = "BUY"
                /\ LastRecord(summary.trades).action = "SELL"

\* C25 witness: a returned ledger of three round trips, the second bought on
\* the row of the first sale and the third closed by the forced sale
C25_Witness ==
    /\ summary.returned
    /\ Len(summary.trades) = 6
    /\ summary.trades[2].date = summary.trades[3].date
    /\ summary.trades[6].rule_label = ForcedLabel

\* record i of a ledger is a SELL dated the row of the BUY it closes
SoldOnBuyRow(recs, i) ==
    /\ i > 1
    /\ recs[i].action = "SELL"
    /\ recs[i - 1].action = "BUY"
    /\ recs[i - 1].date = recs[i].date

\* C26: a position is not closed by a sell trigger on the row that opened
\* it.  The step after a BUY takes the next row or ends the loop, even when
\* the row's High reaches Close*(1+take_profit_pct); a SELL dated the row of
\* its BUY is the forced sale after the loop on the last row, it has a
\* realized profit of exactly 0 (cash returns to what it was before the
\* BUY), and it is counted in total_trades and not as a win.
C26_NoSaleOnBuyRow ==
    /\ [][ (AppendsSell /\ SoldOnBuyRow(transaction_records', Len(transaction_records')))
           => /\ pc = "loop"
              /\ pc' = "stats"
              /\ LastRecord(transaction_records').date = n
              /\ LastRecord(transaction_records').rule_label = ForcedLabel
              /\ LastRecord(transaction_records').realized_profit = 0
              /\ UnroundedProfit = 0
         ]_vars
    /\ [](\A i \in DOMAIN transaction_records :
             SoldOnBuyRow(transaction_records, i)
                => /\ i = Len(transaction_records)
                   /\ pc \in {"stats", "done", "raised"})
    /\ []((summary.returned
             /\ SoldOnBuyRow(summary.trades, Len(summary.trades)))
          => /\ summary.total_trades * 2 = Len(summary.trades)
             /\ ~IsWinningSell(LastRecord(summary.trades))
             /\ summary.win_rate.num * summary.total_trades
                   <= (summary.total_trades - 1) * summary.win_rate.den)

\* C26 witness: a position opened on the last row, whose High reaches
\* Close*(1+take_profit_pct), was closed by the forced sale only, after an
\* earlier winning sale
C26_Witness ==
    /\ summary.returned
    /\ Len(summary.trades) = 4
    /\ SoldOnBuyRow(summary.trades, 4)
    /\ 100 * row.High >= entry_price * (100 + take_profit_pct)
    /\ summary.trades[4].realized_profit = 0
    /\ summary.win_rate = [num |-> 1, den |-> 2]

\* ------------------------------------------------------------------------
\* Properties of the classification
\* ------------------------------------------------------------------------
\* C4: mutual exclusivity.  While and after the rules are applied every row
\* carries one code of 0..8, a rule only ever writes its own number, and a
\* row that carries a rule number keeps it when later rules are applied.
C4_MutualExclusivity ==
    /\ [](pc \in {"apply", "classified"}
            => /\ DOMAIN signals = 1..df.N
               /\ \A t \in DOMAIN signals : signals[t] \in 0..applied)
    /\ [](pc = "classified"
            => \A t \in 1..df.N : df.granville_signal[t] \in 0..8)
    /\ [][ pc = "apply"
           => \A t \in DOMAIN signals :
                 /\ signals[t] # 0 => signals'[t] = signals[t]
                 /\ signals'[t] \in {signals[t], applied'} ]_vars

\* C4 witness: the rule applied last holds on a row that an earlier rule had
\* claimed, and the row keeps the earlier number
C4_Witness ==
    /\ pc = "apply"
    /\ applied >= 2
    /\ \E t \in DOMAIN signals :
          /\ RuleCondition(applied, df, ind, t)
          /\ signals[t] \in 1..(applied - 1)

\* the rules whose condition holds on row t
RulesHolding(t) == {k \in 1..8 : RuleCondition(k, df, ind, t)}

\* C5: first match wins.  The code of a row is the lowest-numbered rule
\* whose condition holds on the row, and 0 when none holds; a buy rule wins
\* over a sell rule that holds on the same row.
C5_FirstMatchWins ==
    pc = "classified" =>
        \A t \in 1..df.N :
            IF RulesHolding(t) = {}
            THEN df.granville_signal[t] = 0
            ELSE /\ df.granville_signal[t] \in RulesHolding(t)
                 /\ \A k \in RulesHolding(t) : df.granville_signal[t] <= k

\* C5 witness: a buy rule and a sell rule hold on one row, which reports the
\* buy rule
C5_Witness ==
    /\ pc = "classified"
    /\ \E t \in 1..df.N :
          /\ RulesHolding(t) \cap (1..4) # {}
          /\ RulesHolding(t) \cap (5..8) # {}
          /\ df.granville_signal[t] \in 1..4

\* the frame of Scenario B: Close rising linearly from 90 to 150, with its
\* moving average
IsScenarioB ==
    /\ df.N = RampLen
    /\ \A t \in 1..df.N :
          Eq(df.Close[t], Frac(90 * (RampLen - 1) + 60 * (t - 1), RampLen - 1))
    /\ \A t \in RampMa..df.N : ~IsNaN(df.ma[t])

\* C7: Scenario B.  The series rising linearly from 90 to 150, classified
\* with its moving average, has a row marked with buy rule 1 or 2.
C7_ScenarioB ==
    (pc = "classified" /\ IsScenarioB)
        => \E t \in 1..df.N : df.granville_signal[t] \in {1, 2}

\* C7 witness: Scenario B classified, its last row marked with rule 2
C7_Witness ==
    /\ pc = "classified"
    /\ IsScenarioB
    /\ df.granville_signal[df.N] = 2

\* ------------------------------------------------------------------------
\* Properties of prepare_signals and the backtest of its result
\* ------------------------------------------------------------------------
\* every row of the frame has the same Close
IsFlat == \A t \in 1..df.N : df.Close[t] = df.Close[1]

\* C6: Scenario A.  For at least 20 rows of identical Close, prepare_signals
\* leaves granville_signal, cross_signal and breakout_signal 0 on every row,
\* and the backtest returns an empty ledger, no trade and a total return of 0.
C6_ScenarioA ==
    IsFlat =>
        /\ pc \in {"backtest", "done", "raised"}
             => \A t \in 1..df.N :
                   /\ df.granville_signal[t] = 0
                   /\ df.cross_signal[t] = 0
                   /\ df.breakout_signal[t] = 0
        /\ pc \in {"done", "raised"} => transaction_records = <<>>
        /\ pc = "done"
             => /\ summary.returned
                /\ summary.trades = <<>>
                /\ summary.total_trades = 0
                /\ summary.total_return.num = 0

\* C6 witness: a flat frame longer than the long window went through
\* prepare_signals and the backtest, which returned
C6_Witness ==
    /\ pc = "done"
    /\ IsFlat
    /\ df.N > LongWindow
    /\ summary.returned
    /\ summary.final_value = initial_capital

\* ------------------------------------------------------------------------
\* Properties of filter_signals
\* ------------------------------------------------------------------------
RECURSIVE ByTime(_, _)
\* the signals of list whose timestamp is in times, by ascending timestamp,
\* signals of one timestamp in the order of the list
ByTime(list, times) ==
    IF times = {} THEN <<>>
    ELSE LET first == CHOOSE x \in times : \A y \in times : x <= y
         IN  SelectSeq(list, LAMBDA sg : sg.timestamp = first)
                \o ByTime(list, times \ {first})

\* the input in ascending timestamp order
Ascending == ByTime(signal_list, {signal_list[k].timestamp : k \in DOMAIN signal_list})

SameSeries(a, b) == a.stock_code = b.stock_code /\ a.rule_number = b.rule_number

\* the gap of two signals, in seconds
Gap(a, b) == Abs(a.timestamp - b.timestamp)

\* within the window, a gap of exactly the window included
WithinInclusive(a, b) == Gap(a, b) <= 60 * TimeWindowMinutes

\* within the window, a gap of exactly the window excluded
WithinExclusive(a, b) == Gap(a, b) < 60 * TimeWindowMinutes

\* which signals of the ascending input the walk accepts, when Within(a, b)
\* says that two signals are within the window of each other
Accepts(Within(_, _)) ==
    LET S == Ascending
        kept[k \in 1..Len(S)] ==
            ~\E j \in 1..(k - 1) :
                kept[j] /\ SameSeries(S[k], S[j]) /\ Within(S[k], S[j])
    IN  kept

RECURSIVE Pick(_, _, _)
\* the signals of S from the k-th on that keep marks
Pick(S, keep, k) ==
    IF k > Len(S) THEN <<>>
    ELSE (IF keep[k] THEN <<S[k]>> ELSE <<>>) \o Pick(S, keep, k + 1)

\* the deduplication rule for a reading of "within the window"
DedupRule(Within(_, _)) ==
    pc = "filtered" =>
        /\ filtered_signals = Pick(Ascending, Accepts(Within), 1)
        /\ \A a, b \in DOMAIN filtered_signals :
              (a # b /\ SameSeries(filtered_signals[a], filtered_signals[b]))
                 => ~Within(filtered_signals[a], filtered_signals[b])

\* C9 as claimed: a signal is discarded exactly when an accepted earlier
\* signal of its stock and rule lies within time_window_minutes of it, a gap
\* of exactly time_window_minutes counting as within; no two retained signals
\* of one stock and rule are within the window of each other.
C9_DedupInclusive == DedupRule(WithinInclusive)

\* C9 amended: the same rule with a gap of exactly time_window_minutes NOT
\* counting as within: only a gap strictly below the window discards.
C9_DedupExclusive == DedupRule(WithinExclusive)

\* C9 witness: a signal suppressed by an accepted one, a later signal kept
\* although it is within the window of the suppressed one, and a kept
\* signal exactly one window after an accepted one
C9_Witness ==
    /\ pc = "filtered"
    /\ Len(signal_list) = 3
    /\ Len(filtered_signals) = 2
    /\ \A k \in 1..3 : SameSeries(signal_list[k], signal_list[1])
    /\ \E k \in 1..3 :
          /\ \A j \in 1..2 : filtered_signals[j] # signal_list[k]
          /\ WithinExclusive(signal_list[k], filtered_signals[2])
    /\ Gap(filtered_signals[1], filtered_signals[2]) = 60 * TimeWindowMinutes

RECURSIVE IsSubsequence(_, _)
\* a is b with some elements left out
IsSubsequence(a, b) ==
    IF a = <<>> THEN TRUE
    ELSE IF b = <<>> THEN FALSE
    ELSE IF Head(a) = Head(b) THEN IsSubsequence(Tail(a), Tail(b))
    ELSE IsSubsequence(a, Tail(b))

\* two signals of the ascending input are duplicates of each other
Duplicates(a, b) == SameSeries(a, b) /\ WithinExclusive(a, b)

\* the groups of mutually duplicate signals of the ascending input: two or
\* more signals, each a duplicate of each other, that no further signal
\* could join
DuplicateGroups ==
    { G \in SUBSET (1..Len(Ascending)) :
        /\ Cardinality(G) >= 2
        /\ \A j, k \in G : j # k => Duplicates(Ascending[j], Ascending[k])
        /\ \A h \in (1..Len(Ascending)) \ G :
              \E j \in G : ~Duplicates(Ascending[h], Ascending[j]) }

\* C10 as claimed: the result is a subsequence of the input in ascending
\* timestamp order, and of every group of mutually duplicate signals the
\* earliest is retained and no other.
C10_EarliestOfEveryGroup ==
    pc = "filtered" =>
        /\ IsSubsequence(filtered_signals, Ascending)
        /\ filtered_signals = Pick(Ascending, Accepts(WithinExclusive), 1)
        /\ \A G \in DuplicateGroups : \A k \in G :
              Accepts(WithinExclusive)[k] <=> (\A j \in G : k <= j)

\* C10 amended: the result is a subsequence of the input in ascending
\* timestamp order; of any two signals that are duplicates of each other at
\* most one is retained, and it is the earlier unless the earlier was itself
\* discarded as a duplicate of a signal accepted before it; the first signal
\* of each stock and rule is always retained.
C10_OutputOrder ==
    pc = "filtered" =>
        /\ IsSubsequence(filtered_signals, Ascending)
        /\ filtered_signals = Pick(Ascending, Accepts(WithinExclusive), 1)
        /\ \A j \in 1..Len(Ascending) : \A k \in (j + 1)..Len(Ascending) :
              Duplicates(Ascending[j], Ascending[k])
                 => /\ ~(Accepts(WithinExclusive)[j] /\ Accepts(WithinExclusive)[k])
                    /\ \/ Accepts(WithinExclusive)[j]
                       \/ \E h \in 1..(j - 1) :
                             /\ Accepts(WithinExclusive)[h]
                             /\ Duplicates(Ascending[h], Ascending[j])
        /\ \A k \in 1..Len(Ascending) :
              (\A j \in 1..(k - 1) : ~SameSeries(Ascending[j], Ascending[k]))
                 => Accepts(WithinExclusive)[k]

\* C10 witness: an input that is not in timestamp order, in which the
\* earliest signal of a group of mutual duplicates was discarded as the
\* duplicate of an earlier accepted signal and a later one of the group kept
C10_Witness ==
    /\ pc = "filtered"
    /\ Len(signal_list) = 3
    /\ signal_list[1].timestamp > signal_list[2].timestamp
    /\ Len(filtered_signals) = 2
    /\ \E G \in DuplicateGroups : \E j, k \in G :
          /\ j < k
          /\ ~Accepts(WithinExclusive)[j]
          /\ Accepts(WithinExclusive)[k]

\* ------------------------------------------------------------------------
\* Properties of the ingestion
\* ------------------------------------------------------------------------
\* a historical frame that is empty, lacks a required column, holds a
\* non-positive price or holds a negative volume
Malformed(f) ==
    \/ f.columns = {}
    \/ Len(f.rows) = 0
    \/ \E col \in {"date", "open", "high", "low", "close", "volume"} : col \notin f.columns
    \/ \E i \in 1..Len(f.rows) : \E col \in {"open", "high", "low", "close"} :
          ~IsNaN(f.rows[i][col]) /\ f.rows[i][col].num <= 0
    \/ \E i \in 1..Len(f.rows) : ~IsNaN(f.rows[i].volume) /\ f.rows[i].volume.num < 0

\* C13: malformed bars are rejected.  process_input_data leaves the caller's
\* frame as it was, and for a frame that is empty, lacks one of date, open,
\* high, low, close, volume, holds a non-positive open, high, low or close,
\* or holds a negative volume it raises DataValidationError and returns no
\* bars.
C13_MalformedRejected ==
    [][ pc = "ingest"
        => /\ historical_data' = historical_data
           /\ Malformed(historical_data)
                => /\ ~processed_data'.ok
                   /\ processed_data'.error_type = "DataValidationError"
                   /\ processed_data'.frame = NoBars
      ]_vars

\* C13 witness: a frame with every column whose only defect is a close of 0
\* in its second row was rejected
C13_Witness ==
    /\ pc = "ingested"
    /\ ~processed_data.ok
    /\ processed_data.error_type = "DataValidationError"
    /\ historical_data.columns = required_columns
    /\ Len(historical_data.rows) = 2
    /\ historical_data.rows[2].close = Frac(0, 1)
    /\ historical_data.rows[1].close = Frac(21, 1)
    /\ \A i \in 1..2 : historical_data.rows[i].volume = Frac(5, 1)

\* the real-time price, volume and timestamp merged into the cleaned rows c
\* give the rows r
MergedAs(c, r, price, volume, timestamp) ==
    /\ Len(c) <= Len(r)
    /\ Len(r) <= Len(c) + 1
    /\ price <= 0 => r = c
    /\ (price > 0 /\ DateOf(c[Len(c)].date) = DateOf(timestamp))
          => /\ Len(r) = Len(c)
             /\ \A i \in 1..(Len(c) - 1) : r[i] = c[i]
             /\ r[Len(c)].date = c[Len(c)].date
             /\ r[Len(c)].open = c[Len(c)].open
             /\ Eq(r[Len(c)].close, Frac(price, 1))
             /\ Ge(r[Len(c)].high, c[Len(c)].high)
             /\ Ge(r[Len(c)].high, Frac(price, 1))
             /\ Eq(r[Len(c)].high, c[Len(c)].high) \/ Eq(r[Len(c)].high, Frac(price, 1))
             /\ Le(r[Len(c)].low, c[Len(c)].low)
             /\ Le(r[Len(c)].low, Frac(price, 1))
             /\ Eq(r[Len(c)].low, c[Len(c)].low) \/ Eq(r[Len(c)].low, Frac(price, 1))
             /\ Eq(Sub(r[Len(c)].volume, c[Len(c)].volume), Frac(volume, 1))
    /\ (price > 0 /\ DateOf(c[Len(c)].date) # DateOf(timestamp))
          => /\ Len(r) = Len(c) + 1
             /\ \A i \in 1..Len(c) : r[i] = c[i]
             /\ r[Len(r)].date = timestamp
             /\ \A col \in {"open", "high", "low", "close"} :
                   Eq(r[Len(r)][col], Frac(price, 1))
             /\ Eq(r[Len(r)].volume, Frac(volume, 1))

\* C15: the real-time merge loses no bar.  When process_input_data returns
\* for a call with real-time data, its rows are those of a cleaned
\* historical series with the real-time data merged: as many rows or one
\* more; on the date of the last bar only that bar changes (close = price,
\* high = max(high, price), low = min(low, price), volume grown by the
\* real-time volume); on another date one bar with open = high = low =
\* close = price is appended; with a non-positive price nothing changes.
C15_MergeKeepsBars ==
    (pc = "ingested" /\ current_data.given /\ processed_data.ok)
        => \E cleaned \in validate_and_clean_data(historical_data) :
              /\ cleaned.ok
              /\ Len(cleaned.frame.rows) > 0
              /\ MergedAs(cleaned.frame.rows, processed_data.frame.rows,
                          current_data.price, current_data.volume,
                          current_data.timestamp)

\* C15 witness: a real-time price above the high of the last bar, on the
\* date of that bar, has replaced its close and high and added to its volume
C15_Witness ==
    /\ pc = "ingested"
    /\ processed_data.ok
    /\ current_data.given
    /\ current_data.price = 13
    /\ Len(historical_data.rows) = 2
    /\ Len(processed_data.frame.rows) = 2
    /\ DateOf(processed_data.frame.rows[2].date) = DateOf(current_data.timestamp)
    /\ processed_data.frame.rows[2].high = Frac(13, 1)
    /\ processed_data.frame.rows[2].low = Frac(9, 1)
    /\ processed_data.frame.rows[2].volume = Frac(8, 1)
    /\ processed_data.frame.rows[1].close = Frac(21, 1)

\* C17: bar ordering.  The rows process_input_data returns are in strictly
\* increasing date order, without two rows of one date, for every accepted
\* historical frame and every real-time merge.
C17_StrictlyIncreasingDates ==
    (pc = "ingested" /\ processed_data.ok)
        => \A i \in 1..(Len(processed_data.frame.rows) - 1) :
              processed_data.frame.rows[i].date < processed_data.frame.rows[i + 1].date

\* ------------------------------------------------------------------------
\* Properties of the confidence score
\* ------------------------------------------------------------------------
\* the indicator is a column of the frame and has a value at the position
Available(d, col, position) ==
    /\ col \in d.columns
    /\ position <= Len(d.rows)
    /\ ~IsNaN(d[col][position])

\* C14: the confidence of a fired rule is 0.6 + v + min(0.2, |ma_slope|*10)
\* + min(0.1, |price_change_3d|*5) clamped to [0, 1], where v is 0.2 for a
\* volume_ratio above 1.5, 0.1 for one above 1.2 and at most 1.5, and 0
\* otherwise; an indicator that is missing or not available contributes 0 and
\* the others still count; the result lies in [0, 1].
C14_ConfidenceScore ==
    confidence.called =>
        LET d == indicators_df.frame
            p == confidence.position
            v == IF ~Available(d, "volume_ratio", p) THEN Frac(0, 1)
                 ELSE IF Gt(d.volume_ratio[p], Frac(3, 2)) THEN Frac(1, 5)
                 ELSE IF Gt(d.volume_ratio[p], Frac(6, 5))
                         /\ Le(d.volume_ratio[p], Frac(3, 2)) THEN Frac(1, 10)
                 ELSE Frac(0, 1)
            trend == IF ~Available(d, "ma_slope", p) THEN Frac(0, 1)
                     ELSE LET x == Times(AbsF(d.ma_slope[p]), 10)
                          IN  IF Lt(x, Frac(1, 5)) THEN x ELSE Frac(1, 5)
            momentum == IF ~Available(d, "price_change_3d", p) THEN Frac(0, 1)
                        ELSE LET x == Times(AbsF(d.price_change_3d[p]), 5)
                             IN  IF Lt(x, Frac(1, 10)) THEN x ELSE Frac(1, 10)
            total == Add(Add(Add(Frac(3, 5), v), trend), momentum)
            clamped == IF Lt(total, Frac(0, 1)) THEN Frac(0, 1)
                       ELSE IF Gt(total, Frac(1, 1)) THEN Frac(1, 1)
                       ELSE total
        IN  /\ confidence.value = clamped
            /\ Le(Frac(0, 1), confidence.value)
            /\ Le(confidence.value, Frac(1, 1))

\* the three contributions together exceed 0.4 and the score is cut to 1,
\* with one call where only the volume contribution is available
C14_Witness ==
    /\ confidence.called
    /\ confidence.position = 1
    /\ indicators_df.frame.columns =
           required_columns \cup {"volume_ratio", "ma_slope", "price_change_3d"}
    /\ indicators_df.frame.volume_ratio[1] = Frac(2, 1)
    /\ indicators_df.frame.ma_slope[1] = Frac(-1, 1)
    /\ indicators_df.frame.price_change_3d[1] = Frac(1, 2)
    /\ confidence.value = Frac(1, 1)

\* a missing ma_slope column leaves the volume and momentum contributions
C14_PartialWitness ==
    /\ confidence.called
    /\ confidence.position = 1
    /\ "ma_slope" \notin indicators_df.frame.columns
    /\ IsNaN(indicators_df.frame.price_change_3d[1])
    /\ indicators_df.frame.volume_ratio[1] = Frac(13, 10)
    /\ confidence.value = Frac(7, 10)

\* ------------------------------------------------------------------------
\* Properties of analyze_stock
\* ------------------------------------------------------------------------
\* the frame has fewer bars than the larger of the two windows, or none
TooShort(f, cfg) ==
    \/ IsEmptyFrame(f)
    \/ Len(f.rows) < MaxInt(cfg.ma_period, cfg.volume_period)

\* C12: calculate_indicators fails with an insufficient-data error
\* (InsufficientDataError), returning no indicator set, exactly when the bar
\* count is smaller than max(ma_window, vol_window) or the input is empty.
C12_InsufficientDataError ==
    indicators_df.called =>
        /\ TooShort(processed_data.frame, config) <=> ~indicators_df.ok
        /\ ~indicators_df.ok =>
              /\ indicators_df.error_type = "InsufficientDataError"
              /\ indicators_df.frame = NoBars

\* the position of a stage of analyze_stock in the order of its code
StageRank ==
    [stage \in {"idle", "process", "generate", "indicators", "format", "responded"} |->
        CASE stage = "idle" -> 0
          [] stage = "process" -> 1
          [] stage = "generate" -> 2
          [] stage = "indicators" -> 3
          [] stage = "format" -> 4
          [] stage = "responded" -> 5]

\* a call that has not responded is at a stage whose step has an outcome:
\* the ingestion yields a frame or an error, and the later stages have the
\* result of the stage before them
StageHasOutcome ==
    /\ pc \in DOMAIN StageRank
    /\ pc = "process" => process_input_data(historical_data, current_data) # {}
    /\ pc \in {"generate", "indicators", "format"} => processed_data.ok
    /\ pc \in {"indicators", "format"} => generated_signals.ok
    /\ pc = "format" => indicators_df.ok
    /\ pc = "responded" <=> api_response.called

\* every step moves the call to a later stage, so no stage is repeated
StageAdvances == StageRank[pc'] > StageRank[pc]

\* what the claim says of the response analyze_stock ended with
ResponseShape ==
    pc = "responded" =>
        /\ api_response.called
        /\ (~Malformed(historical_data) /\ ~TooShort(historical_data, config))
              => /\ api_response.success
                 /\ api_response.data.present
        /\ (~processed_data.ok \/ (generated_signals.called /\ ~generated_signals.ok))
              => ~api_response.success
        /\ ~api_response.success =>
              /\ api_response.data = NoResult
              /\ api_response.error_message # ""
              /\ api_response.metadata.error_type \in
                     {"DataValidationError", "SignalProcessingError",
                      "OutputProcessingError", "UnexpectedError"}
              /\ ~processed_data.ok
                    <=> api_response.metadata.error_type = "DataValidationError"
              /\ (generated_signals.called /\ ~generated_signals.ok)
                    <=> api_response.metadata.error_type = "SignalProcessingError"

C16_SuccessWitness ==
    /\ pc = "responded"
    /\ current_data.given
    /\ api_response.success
    /\ Len(api_response.data.signals) = 1

\* a malformed history ends as a DataValidationError response
C16_ValidationWitness ==
    /\ pc = "responded"
    /\ ~api_response.success
    /\ api_response.metadata.error_type = "DataValidationError"

\* C18: a failure while deriving the indicators inside generate_signals is
\* recovered locally: generate_signals returns the empty list, and
\* analyze_stock completes with zero signals.
C18_LocalRecovery ==
    (generated_signals.called /\ ~indicators_df.ok) =>
        /\ generated_signals.ok
        /\ generated_signals.signals = <<>>
        /\ pc = "responded" =>
              /\ api_response.success
              /\ Len(api_response.data.signals) = 0

\* ------------------------------------------------------------------------
\* Properties of generate_signals
\* ------------------------------------------------------------------------
\* the rule code of every row of the frame calculate_indicators returned
RuleCodes ==
    LET d == indicators_df.frame
    IN  granville_eight_rules([N |-> Len(d.rows),
                               Close |-> Column(d, "close"),
                               ma |-> d.ma,
                               Volume |-> Column(d, "volume"),
                               vol_ma |-> d.vol_avg])

\* the rows whose rule code is not 0
FiredRows == {t \in 1..Len(indicators_df.frame.rows) : RuleCodes[t] # 0}

\* the SignalConfig with enable_signal_filter switched
OtherFilter == [config EXCEPT !.enable_signal_filter = ~config.enable_signal_filter]

\* C27: generate_signals returns at most one Signal, the one of the most
\* recent row whose rule code is not 0, BUY when the rule number is at most 4
\* and SELL otherwise, however many rows carry a rule code; the returned list
\* is the same with enable_signal_filter true and false.
C27_AtMostOneSignal ==
    (generated_signals.called /\ generated_signals.ok) =>
        /\ Len(generated_signals.signals) <= 1
        /\ Len(generated_signals.signals) = 1 <=> FiredRows # {}
        /\ FiredRows # {} =>
              LET latest == CHOOSE t \in FiredRows : \A u \in FiredRows : u <= t
                  s == generated_signals.signals[1]
              IN  /\ s.rule_number = RuleCodes[latest]
                  /\ s.timestamp = indicators_df.frame.rows[latest].date
                  /\ s.price = indicators_df.frame.rows[latest].close
                  /\ s.signal_type = "BUY" <=> s.rule_number <= 4
                  /\ s.signal_type = "SELL" <=> s.rule_number > 4
        /\ generate_signals(processed_data.frame, OtherFilter) = generated_signals

\* C27 witness: two rows carry a rule code, and the one Signal returned is
\* the later row's, a SELL
C27_Witness ==
    /\ generated_signals.called
    /\ generated_signals.ok
    /\ Cardinality(FiredRows) >= 2
    /\ Len(generated_signals.signals) = 1
    /\ generated_signals.signals[1].signal_type = "SELL"
    /\ config.enable_signal_filter

\* C27 witness with a BUY and the filter off
C27_BuyWitness ==
    /\ generated_signals.called
    /\ generated_signals.ok
    /\ Len(generated_signals.signals) = 1
    /\ generated_signals.signals[1].signal_type = "BUY"
    /\ ~config.enable_signal_filter

\* the rows of the prepared frame
PreparedRows == IF pc = "prepare" THEN {} ELSE 1..df.N

\* on every row without a moving average granville_eight_rules outputs 0
NoRuleWithoutAverage ==
    \A t \in PreparedRows : IsNaN(df.MA20[t]) => df.granville_signal[t] = 0

\* crossover_signal and breakout_signal output 0 on every row where one of
\* the two compared series is not available
NoCrossWithoutAverage ==
    \A t \in PreparedRows :
        /\ (IsNaN(df.MA5[t]) \/ IsNaN(df.MA20[t])) => df.cross_signal[t] = 0
        /\ (IsNaN(df.Close[t]) \/ IsNaN(df.MA20[t])) => df.breakout_signal[t] = 0

\* a rule fires on a row only when the trend of the moving average, its
\* change over TrendWindow rows, is available there
NoRuleWithoutTrend ==
    \A t \in PreparedRows :
        df.granville_signal[t] # 0
            => ~IsNaN(Sub(df.MA20[t], Shifted(df.MA20, t, TrendWindow)))

\* C28: no signal without a moving average.  On every row where the moving
\* average is not available granville_eight_rules outputs 0, crossover_signal
\* and breakout_signal output 0 on every row where one of the compared series
\* is not available that day, and no rule condition takes a value that is
\* not available for 0.
C28_NoSignalWithoutAverage ==
    /\ NoRuleWithoutAverage
    /\ NoCrossWithoutAverage
    /\ NoRuleWithoutTrend

\* ---------------------------------------------------------------------
\* The notifier (handlers/notifier.py)
\* ---------------------------------------------------------------------

\* trading days and minutes of the real-time rows, and bar times of signals
MaxDate == 1
MaxTime == 2
MaxSignalTime == 1

\* SIGNAL_KEYWORDS
SIGNAL_KEYWORDS == {"BUY", "SELL"}

\* the rows the real-time table can hold
Records ==
    [present : {TRUE}, Date : 1..MaxDate, Time : 1..MaxTime,
     StockCode : StockCodes]

\* key = (record["Date"], record["Time"], record["StockCode"])
RecordKey(record) == <<record.Date, record.Time, record.StockCode>>

\* ORDER BY Date DESC, Time DESC: a is not older than b
NotOlder(a, b) ==
    \/ a.Date > b.Date
    \/ a.Date = b.Date /\ a.Time >= b.Time

\* what the analysis of one record can come to: an exception inside the
\* try block, no last signal of today, or a last signal; for a signal,
\* whether notify_users and log_signal_to_db complete or raise
AnalysisOutcomes ==
    [kind : {"raised", "none"}]
        \cup [kind : {"signal"}, signal_type : SIGNAL_KEYWORDS,
              timestamp : 1..MaxSignalTime,
              notify_ok : BOOLEAN, log_ok : BOOLEAN]

\* SELECT COUNT(*) FROM granville_signal_log WHERE stock_code = ? AND
\* signal_type = ? AND signal_time = ?
CountLogRows(log, stock_code, signal_type, signal_time) ==
    Cardinality({i \in 1..Len(log) :
        /\ log[i].stock_code = stock_code
        /\ log[i].signal_type = signal_type
        /\ log[i].signal_time = signal_time})

\* log_signal_to_db: one more row of granville_signal_log
log_signal_to_db(log, stock_code, signal_type, signal_time) ==
    Append(log, [stock_code |-> stock_code, signal_type |-> signal_type,
                 signal_time |-> signal_time, notified |-> TRUE])

\* the try block of main_loop for a last signal: the look-up in the log,
\* then notify_users, then log_signal_to_db; an exception of either call
\* leaves the block at once
HandleSignal(st, stock_code, out) ==
    LET exists == CountLogRows(st.signal_log, stock_code,
                               out.signal_type, out.timestamp)
        message == [stock_code |-> stock_code,
                    signal_type |-> out.signal_type,
                    signal_time |-> out.timestamp]
    IN  IF exists # 0 THEN st
        ELSE IF ~out.notify_ok THEN st
        ELSE IF ~out.log_ok
             THEN [st EXCEPT !.notifications = Append(@, message)]
        ELSE [st EXCEPT
                 !.notifications = Append(@, message),
                 !.signal_log = log_signal_to_db(@, stock_code,
                                    out.signal_type, out.timestamp)]

\* one pass of the while loop of main_loop over the notifier's state st
\* (processed_keys, signal_log, notifications, analysed, skipped), with
\* the latest record and the watch list as read from the database
main_loop_MarksSkipped(st, record, watched, out) ==
    IF ~record.present THEN st
    ELSE LET key == RecordKey(record)
             stock_code == record.StockCode
         IN  IF key \in st.processed_keys THEN st
             ELSE IF stock_code \notin watched
                  THEN [st EXCEPT !.skipped = @ \cup {key},
                                  !.processed_keys = @ \cup {key}]
             ELSE LET called == [st EXCEPT !.analysed = Append(@, key)]
                      after ==
                          IF out.kind = "signal"
                          THEN HandleSignal(called, stock_code, out)
                          ELSE called
                  IN  [after EXCEPT !.processed_keys = @ \cup {key}]

main_loop(st, record, watched, out) ==
    IF ~record.present THEN st
    ELSE LET key == RecordKey(record)
             stock_code == record.StockCode
         IN  IF key \in st.processed_keys THEN st
             ELSE IF stock_code \notin watched
                  THEN [st EXCEPT !.skipped = @ \cup {key}]
             ELSE LET called == [st EXCEPT !.analysed = Append(@, key)]
                      after ==
                          IF out.kind = "signal"
                          THEN HandleSignal(called, stock_code, out)
                          ELSE called
                  IN  [after EXCEPT !.processed_keys = @ \cup {key}]

\* the notifier's own state as one record
NotifierState ==
    [processed_keys |-> processed_keys, signal_log |-> signal_log,
     notifications |-> notifications, analysed |-> analysed,
     skipped |-> skipped]

NotifierInit ==
    /\ pc = "poll"
    /\ CoreIdle
    /\ ApiIdle
    /\ latest_record = NoRecord
    /\ watch_list \in SUBSET StockCodes
    /\ processed_keys = {}
    /\ signal_log = <<>>
    /\ notifications = <<>>
    /\ analysed = <<>>
    /\ skipped = {}

\* a newer row is written to the real-time table
NewRecord ==
    /\ pc = "poll"
    /\ \E record \in Records :
        /\ latest_record.present => NotOlder(record, latest_record)
        /\ record # latest_record
        /\ latest_record' = record
    /\ UNCHANGED <<pc, watch_list, processed_keys, signal_log, notifications,
                   analysed, skipped, btVars, ruleVars, filterVars, apiVars>>

\* a stock is put on or taken off the watch list
ChangeWatchList ==
    /\ pc = "poll"
    /\ \E stock_code \in StockCodes :
        watch_list' = IF stock_code \in watch_list
                      THEN watch_list \ {stock_code}
                      ELSE watch_list \cup {stock_code}
    /\ UNCHANGED <<pc, latest_record, processed_keys, signal_log,
                   notifications, analysed, skipped, btVars, ruleVars,
                   filterVars, apiVars>>

\* one pass of the while loop
Iteration ==
    /\ pc = "poll"
    /\ \E out \in AnalysisOutcomes :
        LET st == main_loop(NotifierState, latest_record, watch_list, out)
        IN  /\ processed_keys' = st.processed_keys
            /\ signal_log' = st.signal_log
            /\ notifications' = st.notifications
            /\ analysed' = st.analysed
            /\ skipped' = st.skipped
    /\ UNCHANGED <<pc, latest_record, watch_list, btVars, ruleVars,
                   filterVars, apiVars>>

\* get_historical_data or record_to_current_data raises outside the try
\* block: the exception leaves main_loop
LoopCrashes ==
    /\ pc = "poll"
    /\ latest_record.present
    /\ RecordKey(latest_record) \notin processed_keys
    /\ latest_record.StockCode \in watch_list
    /\ pc' = "crashed"
    /\ UNCHANGED <<notifierVars, btVars, ruleVars, filterVars, apiVars>>

NotifierNext ==
    \/ NewRecord
    \/ ChangeWatchList
    \/ Iteration
    \/ LoopCrashes

SpecNotifier == NotifierInit /\ [][NotifierNext]_vars

\* ---------------------------------------------------------------------
\* Properties of the notifier
\* ---------------------------------------------------------------------

\* a pass of the loop: the database is as it was and the loop still runs
LoopStep == UNCHANGED <<latest_record, watch_list, pc>>

\* the step sends one more notification
SendsNotification == Len(notifications') = Len(notifications) + 1

\* a notification goes out only for a triple without a row in the log
SentOnlyWhenUnlogged ==
    [][SendsNotification =>
        LET message == notifications'[Len(notifications')]
        IN  CountLogRows(signal_log, message.stock_code,
                message.signal_type, message.signal_time) = 0]_vars

\* no two notifications are for the same triple
NoRepeatedNotification ==
    \A i, j \in DOMAIN notifications :
        i # j => notifications[i] # notifications[j]

\* C29: over any sequence of passes of main_loop the users are notified
\* at most once for a (stock_code, signal_type, signal timestamp): a
\* notification is sent only while granville_signal_log has no row for
\* the triple, and once one is sent no later pass producing the same
\* triple sends another, also when the log write after the send failed
C29_AtMostOnceDelivery ==
    /\ SentOnlyWhenUnlogged
    /\ []NoRepeatedNotification

\* the record the loop sees was analysed before
SeenBefore ==
    /\ latest_record.present
    /\ RecordKey(latest_record) \in processed_keys

\* the record the loop sees is of a stock that is not watched
Unwatched ==
    /\ latest_record.present
    /\ RecordKey(latest_record) \notin processed_keys
    /\ latest_record.StockCode \notin watch_list

\* the record the loop sees is due for analysis
Due ==
    /\ latest_record.present
    /\ RecordKey(latest_record) \notin processed_keys
    /\ latest_record.StockCode \in watch_list

\* every key analyze_stock was called for is in processed_keys, and no
\* key was analysed twice
AnalysedOnce ==
    /\ \A i \in DOMAIN analysed : analysed[i] \in processed_keys
    /\ \A i, j \in DOMAIN analysed : i # j => analysed[i] # analysed[j]

\* C30: once main_loop has run the analysis for a latest record,
\* whatever came of it, its key is in processed_keys and every later
\* pass seeing the same record neither analyses nor notifies; a record
\* of a stock off the watch list is skipped without its key being added,
\* and a pass that finds it on the watch list analyses it
C30_ProcessedOnce ==
    /\ []AnalysedOnce
    /\ [][SeenBefore /\ LoopStep =>
            UNCHANGED <<processed_keys, signal_log, notifications,
                        analysed>>]_vars
    /\ [][Unwatched /\ LoopStep =>
            UNCHANGED <<processed_keys, signal_log, notifications,
                        analysed>>]_vars
    /\ [][Due /\ LoopStep =>
            /\ analysed' = Append(analysed, RecordKey(latest_record))
            /\ RecordKey(latest_record) \in processed_keys']_vars

\* a record was skipped while its stock was off the watch list, and was
\* analysed once the stock was on it; it is still the latest record
C30_Witness ==
    /\ SeenBefore
    /\ RecordKey(latest_record) \in skipped
    /\ \E i \in DOMAIN analysed : analysed[i] = RecordKey(latest_record)

\* a record whose analysis raised is in processed_keys all the same, next
\* to one that led to a notification
C30_AfterEveryOutcome ==
    /\ Len(analysed) = 3
    /\ Len(notifications) = 1
    /\ signal_log = <<>>
    /\ SeenBefore

====
